---- MODULE Spec2Model ----
(***************************************************************************)
(* Model of the SEDAPAL microzone ETL and of its criticality annotation.   *)
(*                                                                         *)
(* Representation of pandas values:                                        *)
(*   text           a sequence of one-character strings                    *)
(*   missing text   NA (pd.NA / NaN in an object column)                   *)
(*   nullable int   <<>> (missing) or <<n>>                                *)
(*   rational       <<num, den>> with den > 0; <<>> when missing           *)
(***************************************************************************)
EXTENDS Integers, Sequences, FiniteSets, TLC

NA == << "<NA>" >>

IsNA(v) == v = NA

VARIABLES
    pc,             \* position of the run being modelled
    ubigeoCrudo,    \* raw ubigeo cell handed to the three _sanear_ubigeo
    ubigeoSaneado,  \* [conexiones, longitudes, proyectos] -> sanitized cell
    pesosEntrada,   \* <<peso_ratio, peso_conexiones>> given to CriteriosCriticidad(...)
    pesosObjeto,    \* <<peso_ratio, peso_conexiones>> of the constructed object
    argumentos,     \* arguments of CriteriosCriticidad(...) in the annotation run
    criterios,      \* the constructed CriteriosCriticidad, <<>> before construction
    microzonas,     \* table handed to anotar_indicadores: [columnas, filas]
    enriquecido,    \* rows returned by anotar_indicadores, <<>> before the call
    fuentes,        \* the three raw tables read from the input files
    orden_clases,   \* iteration order of the set CLASES_VALIDAS in this process
    etl,            \* the local tables of ejecutar_etl
    excepcion,      \* the exception that ended ejecutar_etl, <<>> if none
    archivo,        \* the CSV at ruta_salida
    archivo_previo, \* the CSV at ruta_salida when this process started
    corrida,        \* number of the process running ejecutar_etl on the sources
    entrada,        \* table handed directly to calcular_indicadores
    resultado,      \* what that call returned or raised, <<>> before the call
    textoCrudo,     \* raw text cell handed to the text normalizers of the cleaners
    textoNormalizado, \* [columna -> [limpiador -> normalized cell]]
    dataset,        \* the cached DataFrame of _cargar_dataset_enriquecido
    configuracion,  \* the ConfiguracionServicio of the serving process
    percentiles,    \* the cached dict of percentiles of _cargar_dataset_enriquecido
    respuesta,      \* the last request served and its response, <<>> before any
    exportada,      \* table handed to guardar_resultados in the round trip
    csv,            \* the file guardar_resultados wrote
    recargada,      \* what cargar_microzonas read back from that file
    busqueda,       \* the detail lookup made on the reloaded table
    parametros,     \* reintentos and espera_segundos of descargar_dataset
    intento,        \* the local intento of descargar_dataset
    dormido,        \* the arguments of the calls of time.sleep, in order
    descarga,       \* how descargar_dataset is going or ended
    cache,          \* the lru_cache of _cargar_dataset_enriquecido
    hilos,          \* the threads serving requests: position and what they hold
    cargas          \* number of times the body of _cargar_dataset_enriquecido ran

vars == <<pc, ubigeoCrudo, ubigeoSaneado, pesosEntrada, pesosObjeto,
          argumentos, criterios, microzonas, enriquecido,
          fuentes, orden_clases, etl, excepcion, archivo, archivo_previo, corrida,
          entrada, resultado, textoCrudo, textoNormalizado,
          dataset, percentiles, configuracion, respuesta,
          exportada, csv, recargada, busqueda,
          parametros, intento, dormido, descarga, cache, hilos, cargas>>

varsAnotacion == <<argumentos, criterios, microzonas, enriquecido>>

varsUbigeo == <<ubigeoCrudo, ubigeoSaneado>>

varsPesos == <<pesosEntrada, pesosObjeto>>

varsEtl == <<fuentes, orden_clases, etl, excepcion, archivo, archivo_previo, corrida>>

varsIndicadores == <<entrada, resultado>>

varsTexto == <<textoCrudo, textoNormalizado>>

varsApi == <<dataset, percentiles, configuracion, respuesta>>

varsRecarga == <<exportada, csv, recargada, busqueda>>

varsDescarga == <<parametros, intento, dormido, descarga>>

varsCache == <<cache, hilos, cargas>>

\* no table yet
SinTabla == [error |-> <<>>, columnas |-> <<>>, filas |-> <<>>]

\* the file that has never been written
Ausente == [existe |-> FALSE, columnas |-> <<>>, filas |-> <<>>]

\* the locals of ejecutar_etl before its first statement
SinTablas ==
    [df_conexiones |-> SinTabla, df_longitudes |-> SinTabla, df_proyectos |-> SinTabla,
     df_microzonas |-> SinTabla, df_indicadores |-> SinTabla]

\* values of the variables a specification does not use
ReposoUbigeo ==
    /\ ubigeoCrudo = NA
    /\ ubigeoSaneado = [conexiones |-> NA, longitudes |-> NA, proyectos |-> NA]

ReposoPesos ==
    /\ pesosEntrada = <<>>
    /\ pesosObjeto = <<>>

ReposoAnotacion ==
    /\ argumentos = <<>>
    /\ criterios = <<>>
    /\ microzonas = <<>>
    /\ enriquecido = <<>>

ReposoEtl ==
    /\ fuentes = <<>>
    /\ orden_clases = <<>>
    /\ etl = SinTablas
    /\ excepcion = <<>>
    /\ archivo = Ausente
    /\ archivo_previo = Ausente
    /\ corrida = 0

ReposoIndicadores ==
    /\ entrada = <<>>
    /\ resultado = <<>>

ReposoTexto ==
    /\ textoCrudo = NA
    /\ textoNormalizado = <<>>

ReposoRecarga ==
    /\ exportada = <<>>
    /\ csv = <<>>
    /\ recargada = <<>>
    /\ busqueda = <<>>

ReposoDescarga ==
    /\ parametros = <<>>
    /\ intento = 0
    /\ dormido = <<>>
    /\ descarga = <<>>

ReposoCache ==
    /\ cache = <<>>
    /\ hilos = <<>>
    /\ cargas = 0

ReposoApi ==
    /\ dataset = <<>>
    /\ percentiles = <<>>
    /\ configuracion = <<>>
    /\ respuesta = <<>>

-----------------------------------------------------------------------------
(* Bounds of the model                                                     *)

MaxUbigeoLen == 7

\* rows of the table handed to anotar_indicadores
MaxFilasTabla == 2

\* Mantissa width of the floating-point model.  Python floats are binary64
\* (53 bits); TLC's integers cannot carry 53-bit mantissas, so the same
\* round-to-nearest-even arithmetic is checked at this width.
Precision == 6

\* binary exponents of the input weights: MinExpPeso .. MinExpPeso + AnchoExpPeso
AnchoExpPeso == 3

-----------------------------------------------------------------------------
(* Characters and strings                                                  *)

Digitos == {"0", "1", "2", "3", "4", "5", "6", "7", "8", "9"}

Espacios == {" ", "\t"}

RECURSIVE Filtrar(_, _)
\* str.replace(r"<class>", "", regex=True): drop every character in `fuera`
Filtrar(s, fuera) ==
    IF s = <<>> THEN <<>>
    ELSE IF Head(s) \in fuera THEN Filtrar(Tail(s), fuera)
         ELSE <<Head(s)>> \o Filtrar(Tail(s), fuera)

RECURSIVE Ceros(_)
Ceros(n) == IF n <= 0 THEN <<>> ELSE <<"0">> \o Ceros(n - 1)

\* str.zfill(ancho) on a string without sign: left-pad with "0", never truncate
Zfill(s, ancho) == Ceros(ancho - Len(s)) \o s

\* str.fullmatch(r"\d{6}")
FullMatchSeisDigitos(s) == Len(s) = 6 /\ \A i \in 1..6 : s[i] \in Digitos

\* fillna("").astype(str)
FillnaTexto(v) == IF IsNA(v) THEN <<>> ELSE v

-----------------------------------------------------------------------------
(* _sanear_ubigeo, one copy per cleaner                                    *)

SoloDigitos(s) == Filtrar(s, {c \in {s[i] : i \in 1..Len(s)} : c \notin Digitos})

\* mutant: the fullmatch mask is skipped, the padded digits are kept as they are
Mut_SanearUbigeoSinMascara(v) == Zfill(SoloDigitos(FillnaTexto(v)), 6)

SanearUbigeoConexiones(v) ==
    LET serie == Zfill(SoloDigitos(FillnaTexto(v)), 6)
    IN  IF FullMatchSeisDigitos(serie) THEN serie ELSE NA

SanearUbigeoLongitudes(v) ==
    LET serie == Zfill(SoloDigitos(FillnaTexto(v)), 6)
    IN  IF FullMatchSeisDigitos(serie) THEN serie ELSE NA

SanearUbigeoProyectos(v) ==
    LET serie == Zfill(SoloDigitos(FillnaTexto(v)), 6)
    IN  IF FullMatchSeisDigitos(serie) THEN serie ELSE NA

-----------------------------------------------------------------------------
(* Specification of the ubigeo sanitizers over bounded raw cells           *)

AlfabetoUbigeo == {"1", "0", "-"}

RECURSIVE Cadenas(_, _)
\* every string over `alfabeto` of length at most n
Cadenas(alfabeto, n) ==
    IF n = 0 THEN {<<>>}
    ELSE LET cortas == Cadenas(alfabeto, n - 1)
         IN  cortas \cup {<<c>> \o s : c \in alfabeto, s \in {t \in cortas : Len(t) = n - 1}}

UbigeosCrudos == Cadenas(AlfabetoUbigeo, MaxUbigeoLen) \cup {NA}

InitUbigeo ==
    /\ pc = "crudo"
    /\ ubigeoCrudo \in UbigeosCrudos
    /\ ubigeoSaneado = [conexiones |-> NA, longitudes |-> NA, proyectos |-> NA]
    /\ ReposoPesos
    /\ ReposoAnotacion
    /\ ReposoEtl
    /\ ReposoIndicadores
    /\ ReposoTexto
    /\ ReposoApi
    /\ ReposoRecarga
    /\ ReposoDescarga
    /\ ReposoCache

SanearUbigeo ==
    /\ pc = "crudo"
    /\ pc' = "saneado"
    /\ ubigeoSaneado' = [conexiones |-> SanearUbigeoConexiones(ubigeoCrudo),
                         longitudes |-> SanearUbigeoLongitudes(ubigeoCrudo),
                         proyectos  |-> SanearUbigeoProyectos(ubigeoCrudo)]
    /\ UNCHANGED <<ubigeoCrudo, varsPesos, varsAnotacion, varsEtl, varsIndicadores, varsTexto, varsApi,
                 varsRecarga, varsDescarga, varsCache>>

NextUbigeo == SanearUbigeo

SpecUbigeo == InitUbigeo /\ [][NextUbigeo]_vars

\* C9: each cleaner's sanitized ubigeo is missing or a string of exactly six digits.
C9_UbigeoSeisDigitosONulo ==
    pc = "saneado" =>
        \A limpiador \in DOMAIN ubigeoSaneado :
            \/ IsNA(ubigeoSaneado[limpiador])
            \/ FullMatchSeisDigitos(ubigeoSaneado[limpiador])

\* witness of C9: a raw cell with a non-digit and fewer than six digits was padded
C9_Witness ==
    /\ pc = "saneado"
    /\ ~IsNA(ubigeoCrudo)
    /\ Len(SoloDigitos(ubigeoCrudo)) \in 1..5
    /\ Len(ubigeoCrudo) > Len(SoloDigitos(ubigeoCrudo))
    /\ \A limpiador \in DOMAIN ubigeoSaneado :
           FullMatchSeisDigitos(ubigeoSaneado[limpiador])

-----------------------------------------------------------------------------
(* Floating-point numbers of `Precision` bits, round to nearest, ties to   *)
(* even.  A float is <<m, e>>, of value m * 2^e, with m = 0 (and e = 0) or  *)
(* 2^(Precision-1) <= |m| < 2^Precision.                                    *)

RECURSIVE Pow2(_)
Pow2(n) == IF n <= 0 THEN 1 ELSE 2 * Pow2(n - 1)

RECURSIVE BitLen(_)
BitLen(n) == IF n = 0 THEN 0 ELSE 1 + BitLen(n \div 2)

FCero == <<0, 0>>

FUno == <<Pow2(Precision - 1), 1 - Precision>>

FMedio == <<Pow2(Precision - 1), 0 - Precision>>

\* the float nearest to n * 2^e, for an integer n >= 0
Redondear(n, e) ==
    LET b == BitLen(n)
    IN  IF n = 0 THEN FCero
        ELSE IF b <= Precision THEN <<n * Pow2(Precision - b), e - (Precision - b)>>
        ELSE LET corte == b - Precision
                 q     == n \div Pow2(corte)
                 r     == n % Pow2(corte)
                 mitad == Pow2(corte - 1)
                 sube  == r > mitad \/ (r = mitad /\ q % 2 = 1)
                 m     == IF sube THEN q + 1 ELSE q
             IN  IF m = Pow2(Precision) THEN <<Pow2(Precision - 1), e + corte + 1>>
                 ELSE <<m, e + corte>>

\* x + y for x, y >= 0
FSuma(x, y) ==
    IF x[1] = 0 THEN y
    ELSE IF y[1] = 0 THEN x
    ELSE LET e == IF x[2] <= y[2] THEN x[2] ELSE y[2]
         IN  Redondear(x[1] * Pow2(x[2] - e) + y[1] * Pow2(y[2] - e), e)

\* x / y for x >= 0, y > 0: quotient with two guard bits and a sticky bit
FDiv(x, y) ==
    IF x[1] = 0 THEN FCero
    ELSE LET n == x[1] * Pow2(Precision + 2)
             q == n \div y[1]
             pegajoso == IF n % y[1] = 0 THEN 0 ELSE 1
         IN  Redondear(2 * q + pegajoso, x[2] - y[2] - (Precision + 2) - 1)

\* x <= y for x, y >= 0
FMenorIgual(x, y) ==
    IF x[1] = 0 THEN TRUE
    ELSE IF y[1] = 0 THEN FALSE
    ELSE x[2] < y[2] \/ (x[2] = y[2] /\ x[1] <= y[1])

\* max(x, 0.0)
FMax0(x) == IF x[1] < 0 THEN FCero ELSE x

-----------------------------------------------------------------------------
(* CriteriosCriticidad.__post_init__, the weights, in floating point        *)

\* mutant: the weights are stored as given, without dividing by their sum
Mut_PostInitPesosSinNormalizar(peso_ratio, peso_conexiones) ==
    IF FMax0(peso_ratio) = FCero /\ FMax0(peso_conexiones) = FCero
    THEN <<FMedio, FMedio>>
    ELSE <<FMax0(peso_ratio), FMax0(peso_conexiones)>>

PostInitPesos(peso_ratio, peso_conexiones) ==
    LET pesos_validados == FSuma(FMax0(peso_ratio), FMax0(peso_conexiones))
    IN  IF pesos_validados = FCero
        THEN <<FMedio, FMedio>>
        ELSE <<FDiv(FMax0(peso_ratio), pesos_validados),
               FDiv(FMax0(peso_conexiones), pesos_validados)>>

MinExpPeso == 0 - Precision - 1

\* the weights a caller may pass: zero, a negative one and every positive
\* float of the exponent window (values from 1/4 up, below 2^AnchoExpPeso / 2)
PesosCrudos ==
    {FCero, <<0 - Pow2(Precision - 1), 1 - Precision>>}
    \cup {<<m, e>> : m \in Pow2(Precision - 1)..(Pow2(Precision) - 1),
                     e \in MinExpPeso..(MinExpPeso + AnchoExpPeso)}

InitPesos ==
    /\ pc = "argumentos"
    /\ pesosEntrada \in PesosCrudos \X PesosCrudos
    /\ pesosObjeto = <<>>
    /\ ReposoUbigeo
    /\ ReposoAnotacion
    /\ ReposoEtl
    /\ ReposoIndicadores
    /\ ReposoTexto
    /\ ReposoApi
    /\ ReposoRecarga
    /\ ReposoDescarga
    /\ ReposoCache

ConstruirPesos ==
    /\ pc = "argumentos"
    /\ pc' = "construido"
    /\ pesosObjeto' = PostInitPesos(pesosEntrada[1], pesosEntrada[2])
    /\ UNCHANGED <<pesosEntrada, varsUbigeo, varsAnotacion, varsEtl, varsIndicadores, varsTexto, varsApi,
                 varsRecarga, varsDescarga, varsCache>>

NextPesos == ConstruirPesos

SpecPesos == InitPesos /\ [][NextPesos]_vars

NoNegativosNoAmbosCero ==
    /\ pesosEntrada[1][1] >= 0
    /\ pesosEntrada[2][1] >= 0
    /\ pesosEntrada[1][1] + pesosEntrada[2][1] > 0

-----------------------------------------------------------------------------
(* Exact rationals <<num, den>>, den > 0, in lowest terms.  The index is    *)
(* rounded to three decimals, which the 1e-16 relative error of binary64    *)
(* changes only on an exact tie, so the index arithmetic is modelled exact. *)

RECURSIVE GCD(_, _)
GCD(a, b) == IF b = 0 THEN a ELSE GCD(b, a % b)

Abs(n) == IF n < 0 THEN 0 - n ELSE n

Q(n, d) ==
    LET g == GCD(Abs(n), Abs(d))
        signo == IF d < 0 THEN 0 - 1 ELSE 1
    IN  <<signo * (n \div g), signo * (d \div g)>>

QEntero(n) == <<n, 1>>

QSuma(x, y) ==
    LET g == GCD(x[2], y[2])
    IN  Q(x[1] * (y[2] \div g) + y[1] * (x[2] \div g), x[2] * (y[2] \div g))

QResta(x, y) == QSuma(x, <<0 - y[1], y[2]>>)

QProd(x, y) ==
    LET a == Q(x[1], y[2])
        b == Q(y[1], x[2])
    IN  <<a[1] * b[1], a[2] * b[2]>>

QDiv(x, y) == QProd(x, Q(y[2], y[1]))

QMenor(x, y) == x[1] * y[2] < y[1] * x[2]

QMenorIgual(x, y) == x[1] * y[2] <= y[1] * x[2]

QMin(x, y) == IF QMenorIgual(x, y) THEN x ELSE y

QMax(x, y) == IF QMenorIgual(y, x) THEN x ELSE y

\* floor of n / d for d > 0 and any n
Piso(n, d) == IF n >= 0 THEN n \div d ELSE 0 - ((0 - n + d - 1) \div d)

\* Series.round(3): the nearest multiple of 1/1000, ties to the even one
Round3(x) ==
    LET n    == x[1] * 1000
        d    == x[2]
        piso == Piso(n, d)
        r2   == 2 * (n - piso * d)
        k    == IF r2 > d \/ (r2 = d /\ piso % 2 # 0) THEN piso + 1 ELSE piso
    IN  Q(k, 1000)

NaN == <<>>

\* pd.isna / pd.notna on a nullable number
EsNulo(v) == v = <<>>

-----------------------------------------------------------------------------
(* config/criterios.py                                                      *)

\* float(x): NaN stays NaN
\* max(x, piso): Python returns x when the comparison with NaN is false
MaxPython(x, piso) == IF EsNulo(x) THEN x ELSE QMax(x, piso)

Clamp01(x) == QMax(QMin(x, QEntero(1)), QEntero(0))

\* CriteriosCriticidad.__post_init__ on the dataclass fields
CriteriosCriticidad(a) ==
    LET ratio0 == QMax(a.peso_ratio, QEntero(0))
        conex0 == QMax(a.peso_conexiones, QEntero(0))
        pesos_validados == QSuma(ratio0, conex0)
        alerta_normalizada == Clamp01(a.umbral_categoria_alerta)
        critica_normalizada == Clamp01(a.umbral_categoria_critica)
        cambiar == QMenor(critica_normalizada, alerta_normalizada)
    IN  [peso_ratio |-> IF pesos_validados[1] = 0 THEN Q(1, 2)
                        ELSE QDiv(ratio0, pesos_validados),
         peso_conexiones |-> IF pesos_validados[1] = 0 THEN Q(1, 2)
                             ELSE QDiv(conex0, pesos_validados),
         percentil_conexiones_critico |->
             MaxPython(a.percentil_conexiones_critico, QEntero(1)),
         umbral_categoria_alerta |->
             IF cambiar THEN critica_normalizada ELSE alerta_normalizada,
         umbral_categoria_critica |->
             IF cambiar THEN alerta_normalizada ELSE critica_normalizada]

\* the field defaults of the dataclass
ArgumentosPorDefecto ==
    [peso_ratio |-> Q(6, 10), peso_conexiones |-> Q(4, 10),
     percentil_conexiones_critico |-> QEntero(15162),
     umbral_categoria_alerta |-> Q(3, 10), umbral_categoria_critica |-> Q(6, 10)]

-----------------------------------------------------------------------------
(* src/analytics/microzonas.py                                              *)

RECURSIVE Insertar(_, _)
Insertar(x, s) ==
    IF s = <<>> THEN <<x>>
    ELSE IF x <= Head(s) THEN <<x>> \o s
         ELSE <<Head(s)>> \o Insertar(x, Tail(s))

RECURSIVE Ordenar(_)
Ordenar(s) == IF s = <<>> THEN <<>> ELSE Insertar(Head(s), Ordenar(Tail(s)))

\* fila.get(columna) / the cell of a column that may be absent from the table
Celda(t, fila, columna) ==
    IF columna \in t.columnas THEN fila[columna] ELSE NaN

RECURSIVE NoNulos(_)
\* Series.dropna() on a column of nullable integers
NoNulos(s) ==
    IF s = <<>> THEN <<>>
    ELSE IF EsNulo(Head(s)) THEN NoNulos(Tail(s))
         ELSE <<Head(s)[1]>> \o NoNulos(Tail(s))

\* Series.quantile(num/den, interpolation="linear") of a non-empty series
Cuantil(valores, num, den) ==
    LET v    == Ordenar(valores)
        pos  == (Len(v) - 1) * num
        bajo == pos \div den
        frac == Q(pos % den, den)
    IN  IF bajo + 1 >= Len(v) THEN QEntero(v[Len(v)])
        ELSE QSuma(QEntero(v[bajo + 1]),
                   QProd(frac, QEntero(v[bajo + 2] - v[bajo + 1])))

\* calcular_percentiles(microzonas)["p75_conexiones"]
P75Conexiones(t) ==
    LET serie_conexiones ==
            IF "conexiones_agua" \in t.columnas
            THEN NoNulos([i \in 1..Len(t.filas) |-> t.filas[i].conexiones_agua])
            ELSE <<>>
    IN  IF serie_conexiones = <<>> THEN NaN ELSE Cuantil(serie_conexiones, 3, 4)

\* the values of a series of floats in ascending order: the value at
\* position p is the one with p - 1 values before it, equal values in the
\* order of the series
OrdenarQ(s) ==
    LET Antes(j, i) == QMenor(s[j], s[i]) \/ (s[j] = s[i] /\ j < i)
        Rango(i) == Cardinality({j \in 1..Len(s) : Antes(j, i)}) + 1
    IN  [p \in 1..Len(s) |-> s[CHOOSE i \in 1..Len(s) : Rango(i) = p]]

\* Series.quantile(num/den, interpolation="linear") of a non-empty series of
\* floats; Series.median() is the quantile 1/2
CuantilQ(valores, num, den) ==
    LET v    == OrdenarQ(valores)
        pos  == (Len(v) - 1) * num
        bajo == pos \div den
        frac == Q(pos % den, den)
    IN  IF bajo + 1 >= Len(v) THEN v[Len(v)]
        ELSE QSuma(v[bajo + 1], QProd(frac, QResta(v[bajo + 2], v[bajo + 1])))

\* calcular_percentiles(microzonas)
calcular_percentiles(t) ==
    LET NoNulo(x) == ~EsNulo(x)
        serie_conexiones ==
            IF "conexiones_agua" \in t.columnas
            THEN [i \in 1..Len(SelectSeq([k \in 1..Len(t.filas) |->
                                              t.filas[k].conexiones_agua], NoNulo)) |->
                     QEntero(SelectSeq([k \in 1..Len(t.filas) |->
                                           t.filas[k].conexiones_agua], NoNulo)[i][1])]
            ELSE <<>>
        serie_ratio ==
            IF "ratio_conexiones_alcantarillado" \in t.columnas
            THEN SelectSeq([i \in 1..Len(t.filas) |->
                               t.filas[i].ratio_conexiones_alcantarillado], NoNulo)
            ELSE <<>>
        percentil(num, den) ==
            IF serie_conexiones = <<>> THEN NaN ELSE CuantilQ(serie_conexiones, num, den)
    IN  [total_registros |-> Len(t.filas),
         p10_conexiones |-> percentil(1, 10),
         p25_conexiones |-> percentil(1, 4),
         mediana_conexiones |-> percentil(1, 2),
         p75_conexiones |-> percentil(3, 4),
         mediana_ratio |-> IF serie_ratio = <<>> THEN NaN ELSE CuantilQ(serie_ratio, 1, 2),
         maximo_ratio |-> IF serie_ratio = <<>> THEN NaN
                          ELSE OrdenarQ(serie_ratio)[Len(serie_ratio)]]

\* mutant: the thresholds are compared in the opposite order
Mut_ClasificarUmbralesInvertidos(valor, umbral_alerta, umbral_critica) ==
    IF EsNulo(valor) THEN "SIN_DATOS"
    ELSE IF QMenorIgual(umbral_alerta, valor) THEN "VIGILANCIA"
    ELSE IF QMenorIgual(umbral_critica, valor) THEN "CRITICA"
    ELSE "ESTABLE"

clasificar_microzona(valor, umbral_alerta, umbral_critica) ==
    IF EsNulo(valor) THEN "SIN_DATOS"
    ELSE IF QMenorIgual(umbral_critica, valor) THEN "CRITICA"
    ELSE IF QMenorIgual(umbral_alerta, valor) THEN "VIGILANCIA"
    ELSE "ESTABLE"

SiAdvierte(condicion, texto) == IF condicion THEN <<texto>> ELSE <<>>

NuloONoPositivo(v) == EsNulo(v) \/ v[1] <= 0

\* mutant: the conditions are chained, only the first warning is kept
Mut_GenerarAdvertenciasEncadenadas(t, fila) ==
    LET ratio_valor == Celda(t, fila, "ratio_conexiones_alcantarillado")
    IN  IF NuloONoPositivo(Celda(t, fila, "longitud_total_agua"))
        THEN <<"Sin longitud de red de agua reportada.">>
        ELSE IF NuloONoPositivo(Celda(t, fila, "longitud_total_desague"))
        THEN <<"Sin longitud de red de desague reportada.">>
        ELSE IF NuloONoPositivo(Celda(t, fila, "conteo_proyectos_activos"))
        THEN <<"Sin proyectos activos registrados para la microzona.">>
        ELSE IF NuloONoPositivo(Celda(t, fila, "conexiones_agua"))
        THEN <<"Sin conexiones de agua registradas.">>
        ELSE IF ~EsNulo(ratio_valor) /\ QMenor(QEntero(1), ratio_valor)
        THEN <<"El ratio de alcantarillado supera la unidad; revisar consistencia.">>
        ELSE <<>>

generar_advertencias(t, fila) ==
    LET ratio_valor == Celda(t, fila, "ratio_conexiones_alcantarillado")
    IN  SiAdvierte(NuloONoPositivo(Celda(t, fila, "longitud_total_agua")),
                   "Sin longitud de red de agua reportada.")
        \o SiAdvierte(NuloONoPositivo(Celda(t, fila, "longitud_total_desague")),
                      "Sin longitud de red de desague reportada.")
        \o SiAdvierte(NuloONoPositivo(Celda(t, fila, "conteo_proyectos_activos")),
                      "Sin proyectos activos registrados para la microzona.")
        \o SiAdvierte(NuloONoPositivo(Celda(t, fila, "conexiones_agua")),
                      "Sin conexiones de agua registradas.")
        \o SiAdvierte(~EsNulo(ratio_valor) /\ QMenor(QEntero(1), ratio_valor),
                      "El ratio de alcantarillado supera la unidad; revisar consistencia.")

\* the reference of the coverage sub-score
PercentilReferencia(t, c) ==
    LET configurado == c.percentil_conexiones_critico
        estimado    == P75Conexiones(t)
    IN  IF ~EsNulo(configurado) /\ configurado[1] > 0 THEN configurado
        ELSE IF ~EsNulo(estimado) /\ estimado[1] > 0 THEN estimado
        ELSE QEntero(1)

\* indice before rounding, for one row; NaN when a source column is absent
\* (the empty Series does not align with the rows of the other term)
IndiceSinRedondear(t, c, fila) ==
    LET ratio == fila.ratio_conexiones_alcantarillado
        serie_ratio_normalizada ==
            IF EsNulo(ratio) THEN QEntero(1) ELSE QMin(ratio, QEntero(1))
        agua == fila.conexiones_agua
        serie_cobertura ==
            IF EsNulo(agua) THEN QEntero(1)
            ELSE QMin(QDiv(QEntero(agua[1]), PercentilReferencia(t, c)), QEntero(1))
        suma_pesos == QSuma(c.peso_ratio, c.peso_conexiones)
        peso_ratio == IF suma_pesos # QEntero(1) THEN QDiv(c.peso_ratio, suma_pesos)
                      ELSE c.peso_ratio
        peso_conexiones ==
            IF suma_pesos # QEntero(1) THEN QDiv(c.peso_conexiones, suma_pesos)
            ELSE c.peso_conexiones
    IN  IF {"ratio_conexiones_alcantarillado", "conexiones_agua"} \subseteq t.columnas
        THEN QSuma(QProd(peso_ratio, QResta(QEntero(1), serie_ratio_normalizada)),
                   QProd(peso_conexiones, QResta(QEntero(1), serie_cobertura)))
        ELSE NaN

\* mutant: the two terms are not complemented
Mut_IndiceSinComplemento(t, c, fila) ==
    LET x == IndiceSinRedondear(t, c, fila)
    IN  IF EsNulo(x) THEN NaN ELSE Round3(QResta(QEntero(1), x))

IndiceCritico(t, c, fila) ==
    LET x == IndiceSinRedondear(t, c, fila)
    IN  IF EsNulo(x) THEN NaN ELSE Round3(x)

\* anotar_indicadores(microzonas, criterios): the rows of the returned copy
anotar_indicadores(t, c) ==
    LET umbral_alerta == QMin(c.umbral_categoria_alerta, c.umbral_categoria_critica)
        umbral_critica == QMax(c.umbral_categoria_alerta, c.umbral_categoria_critica)
    IN  [i \in 1..Len(t.filas) |->
            LET fila == t.filas[i]
                indice == IndiceCritico(t, c, fila)
            IN  [fila |-> fila,
                 indice_critico |-> indice,
                 categoria_microzona |->
                     clasificar_microzona(indice, umbral_alerta, umbral_critica),
                 advertencias_datos |-> generar_advertencias(t, fila)]]

-----------------------------------------------------------------------------
(* Specification of the annotation: criteria are constructed, then a table  *)
(* (as cargar_microzonas returns it from a CSV file) is annotated.          *)

ColumnasAnotadas ==
    {"conexiones_agua", "ratio_conexiones_alcantarillado", "longitud_total_agua",
     "longitud_total_desague", "conteo_proyectos_activos"}

FilaTabla(agua, ratio, longitud_agua, longitud_desague, proyectos) ==
    [conexiones_agua |-> agua, ratio_conexiones_alcantarillado |-> ratio,
     longitud_total_agua |-> longitud_agua, longitud_total_desague |-> longitud_desague,
     conteo_proyectos_activos |-> proyectos]

\* rows a CSV file may hold: pd.to_numeric keeps any number and turns the
\* rest into missing values; nothing is clamped on load
FilasTabla ==
    {FilaTabla(<<1000>>, Q(600, 1000), <<0>>, <<0>>, <<0>>),
     FilaTabla(<<300>>, Q(360, 300), <<5>>, <<0>>, <<2>>),
     FilaTabla(<<20000>>, Q(1, 1), <<7>>, <<3>>, <<1>>),
     FilaTabla(<<0>>, Q(0, 1), <<4>>, <<4>>, <<0>>),
     FilaTabla(NaN, NaN, NaN, NaN, NaN),
     FilaTabla(<<0 - 100>>, Q(0 - 1, 2), <<0 - 1>>, <<2>>, <<1>>)}

RECURSIVE Secuencias(_, _)
\* every sequence over `elementos` of length at most n
Secuencias(elementos, n) ==
    IF n = 0 THEN {<<>>}
    ELSE LET cortas == Secuencias(elementos, n - 1)
         IN  cortas \cup {<<x>> \o s : x \in elementos,
                                        s \in {t \in cortas : Len(t) = n - 1}}

TablasCrudas ==
    {[columnas |-> cols, filas |-> filas] :
        cols \in {ColumnasAnotadas,
                  ColumnasAnotadas \ {"ratio_conexiones_alcantarillado"}},
        filas \in Secuencias(FilasTabla, MaxFilasTabla)}

ArgumentosCrudos ==
    {[peso_ratio |-> pesos[1], peso_conexiones |-> pesos[2],
      percentil_conexiones_critico |-> referencia,
      umbral_categoria_alerta |-> umbrales[1],
      umbral_categoria_critica |-> umbrales[2]] :
        pesos \in {<<Q(6, 10), Q(4, 10)>>, <<Q(0, 1), Q(0, 1)>>,
                   <<Q(1, 1), Q(3, 1)>>, <<Q(0 - 1, 1), Q(2, 1)>>},
        referencia \in {QEntero(15162), QEntero(0), QEntero(400), NaN},
        umbrales \in {<<Q(3, 10), Q(6, 10)>>, <<Q(6, 10), Q(3, 10)>>,
                      <<Q(3, 2), Q(0 - 1, 5)>>, <<Q(1, 2), Q(1, 2)>>}}

InitAnotacion ==
    /\ pc = "argumentos"
    /\ argumentos \in ArgumentosCrudos
    /\ criterios = <<>>
    /\ microzonas \in TablasCrudas
    /\ enriquecido = <<>>
    /\ ReposoUbigeo
    /\ ReposoPesos
    /\ ReposoEtl
    /\ ReposoIndicadores
    /\ ReposoTexto
    /\ ReposoApi
    /\ ReposoRecarga
    /\ ReposoDescarga
    /\ ReposoCache

ConstruirCriterios ==
    /\ pc = "argumentos"
    /\ pc' = "criterios"
    /\ criterios' = CriteriosCriticidad(argumentos)
    /\ UNCHANGED <<argumentos, microzonas, enriquecido, varsUbigeo, varsPesos,
                 varsEtl, varsIndicadores, varsTexto, varsApi,
                 varsRecarga, varsDescarga, varsCache>>

AnotarIndicadores ==
    /\ pc = "criterios"
    /\ pc' = "anotado"
    /\ enriquecido' = anotar_indicadores(microzonas, criterios)
    /\ UNCHANGED <<argumentos, criterios, microzonas, varsUbigeo, varsPesos,
                 varsEtl, varsIndicadores, varsTexto, varsApi,
                 varsRecarga, varsDescarga, varsCache>>

\* the __setattr__ that @dataclass(frozen=True) generates for the class: it
\* raises FrozenInstanceError and leaves the object as it was
Mut_SetattrSinCongelar(objeto, campo, valor) == [objeto EXCEPT ![campo] = valor]

SetattrCongelado(objeto, campo, valor) == objeto

\* a caller assigns to a threshold of the constructed criteria
AsignarUmbral ==
    /\ pc \in {"criterios", "anotado"}
    /\ pc' = "FrozenInstanceError"
    /\ \E campo \in {"umbral_categoria_alerta", "umbral_categoria_critica"},
          valor \in {Q(3, 2), Q(-1, 5)} :
           criterios' = SetattrCongelado(criterios, campo, valor)
    /\ UNCHANGED <<argumentos, microzonas, enriquecido, varsUbigeo, varsPesos,
                 varsEtl, varsIndicadores, varsTexto, varsApi,
                 varsRecarga, varsDescarga, varsCache>>

NextAnotacion == ConstruirCriterios \/ AnotarIndicadores \/ AsignarUmbral

SpecAnotacion == InitAnotacion /\ [][NextAnotacion]_vars

EnCeroUno(x) == QMenorIgual(QEntero(0), x) /\ QMenorIgual(x, QEntero(1))

\* C1: every annotated row has an index that is null or within [0, 1], and
\* its category is SIN_DATOS exactly when the index is null.
C1_IndiceEnCeroUno ==
    pc = "anotado" =>
        \A i \in 1..Len(enriquecido) :
            /\ EsNulo(enriquecido[i].indice_critico)
                   \/ EnCeroUno(enriquecido[i].indice_critico)
            /\ enriquecido[i].categoria_microzona = "SIN_DATOS"
                   <=> EsNulo(enriquecido[i].indice_critico)

\* the part of C1 that holds on every table
C1_SinDatosSiiNulo ==
    pc = "anotado" =>
        \A i \in 1..Len(enriquecido) :
            enriquecido[i].categoria_microzona = "SIN_DATOS"
                <=> EsNulo(enriquecido[i].indice_critico)

\* the bound of C1 on tables without negative counts or ratios
C1_IndiceEnCeroUnoSinNegativos ==
    pc = "anotado" =>
        \A i \in 1..Len(enriquecido) :
            LET fila == enriquecido[i].fila
            IN  (/\ EsNulo(fila.conexiones_agua) \/ fila.conexiones_agua[1] >= 0
                 /\ EsNulo(fila.ratio_conexiones_alcantarillado)
                        \/ fila.ratio_conexiones_alcantarillado[1] >= 0)
                => \/ EsNulo(enriquecido[i].indice_critico)
                   \/ EnCeroUno(enriquecido[i].indice_critico)

EsFilaEscenario(fila) ==
    /\ fila.conexiones_agua = <<1000>>
    /\ fila.ratio_conexiones_alcantarillado = Q(6, 10)

\* C2 as stated: under the default criteria the row with 1000 water
\* connections and ratio 0.6 gets index 0.414 and category VIGILANCIA.
C2_Indice414Vigilancia ==
    (pc = "anotado" /\ argumentos = ArgumentosPorDefecto
        /\ "ratio_conexiones_alcantarillado" \in microzonas.columnas) =>
        \A i \in 1..Len(enriquecido) :
            EsFilaEscenario(enriquecido[i].fila) =>
                /\ enriquecido[i].indice_critico = Q(414, 1000)
                /\ enriquecido[i].categoria_microzona = "VIGILANCIA"

\* C2 amended: the same row gets index 0.614 and category CRITICA.
C2_Indice614Critica ==
    (pc = "anotado" /\ argumentos = ArgumentosPorDefecto
        /\ "ratio_conexiones_alcantarillado" \in microzonas.columnas) =>
        \A i \in 1..Len(enriquecido) :
            EsFilaEscenario(enriquecido[i].fila) =>
                /\ enriquecido[i].indice_critico = Q(614, 1000)
                /\ enriquecido[i].categoria_microzona = "CRITICA"

\* witness of C2: the scenario row was annotated under the default criteria
C2_Witness ==
    /\ pc = "anotado"
    /\ argumentos = ArgumentosPorDefecto
    /\ "ratio_conexiones_alcantarillado" \in microzonas.columnas
    /\ \E i \in 1..Len(enriquecido) : EsFilaEscenario(enriquecido[i].fila)

-----------------------------------------------------------------------------
(* Text operations of the cleaners                                          *)

Minusculas ==
    <<"a", "b", "c", "d", "e", "f", "g", "h", "i", "j", "k", "l", "m",
      "n", "o", "p", "q", "r", "s", "t", "u", "v", "w", "x", "y", "z">>

Mayusculas ==
    <<"A", "B", "C", "D", "E", "F", "G", "H", "I", "J", "K", "L", "M",
      "N", "O", "P", "Q", "R", "S", "T", "U", "V", "W", "X", "Y", "Z">>

\* the characters of the model in code-point order (the order of str.__lt__)
OrdenCaracteres ==
    <<"\t", " ", "-", "/", "0", "1", "2", "3", "4", "5", "6", "7", "8", "9">>
    \o Mayusculas \o Minusculas

Posicion(c, orden) == CHOOSE i \in 1..Len(orden) : orden[i] = c

\* str.upper()
Upper(s) ==
    [i \in 1..Len(s) |->
        IF \E j \in 1..Len(Minusculas) : Minusculas[j] = s[i] THEN Mayusculas[Posicion(s[i], Minusculas)] ELSE s[i]]

RECURSIVE LStrip(_)
LStrip(s) ==
    IF s = <<>> THEN <<>>
    ELSE IF Head(s) \in Espacios THEN LStrip(Tail(s)) ELSE s

RECURSIVE RStrip(_)
RStrip(s) ==
    IF s = <<>> THEN <<>>
    ELSE IF s[Len(s)] \in Espacios THEN RStrip(SubSeq(s, 1, Len(s) - 1)) ELSE s

\* str.strip()
Strip(s) == RStrip(LStrip(s))

RECURSIVE ColapsarEspacios(_)
\* str.replace(r"\s+", " ", regex=True)
ColapsarEspacios(s) ==
    IF s = <<>> THEN <<>>
    ELSE IF Head(s) \in Espacios
         THEN <<" ">> \o ColapsarEspacios(LStrip(s))
         ELSE <<Head(s)>> \o ColapsarEspacios(Tail(s))

RECURSIVE TextoMenor(_, _)
\* a < b on str
TextoMenor(a, b) ==
    IF b = <<>> THEN FALSE
    ELSE IF a = <<>> THEN TRUE
    ELSE IF Head(a) = Head(b) THEN TextoMenor(Tail(a), Tail(b))
    ELSE Posicion(Head(a), OrdenCaracteres) < Posicion(Head(b), OrdenCaracteres)

-----------------------------------------------------------------------------
(* src/constantes.py and the microzone key                                  *)

CLAVE_MICROZONA ==
    <<"ubigeo", "distrito", "gerencia_servicios", "equipo_comercial", "anio", "mes">>

\* the key of a row, as the tuple groupby and merge use
Clave(fila) ==
    <<fila.ubigeo, fila.distrito, fila.gerencia_servicios, fila.equipo_comercial,
      fila.anio, fila.mes>>

\* lexicographic order of the keys of a sorted groupby; in every column the
\* missing values go last
ClaveMenor(a, b) ==
    \E i \in 1..6 :
        /\ \A j \in 1..(i - 1) : a[j] = b[j]
        /\ IF i <= 4
           THEN IF IsNA(a[i]) THEN FALSE
                ELSE IF IsNA(b[i]) THEN TRUE ELSE TextoMenor(a[i], b[i])
           ELSE IF EsNulo(a[i]) THEN FALSE
                ELSE IF EsNulo(b[i]) THEN TRUE ELSE a[i][1] < b[i][1]

ClaveTieneNulo(k) == (\E i \in 1..4 : IsNA(k[i])) \/ EsNulo(k[5]) \/ EsNulo(k[6])

RECURSIVE InsertarClave(_, _)
InsertarClave(k, s) ==
    IF s = <<>> THEN <<k>>
    ELSE IF ClaveMenor(k, Head(s)) THEN <<k>> \o s
         ELSE <<Head(s)>> \o InsertarClave(k, Tail(s))

RECURSIVE OrdenarClaves(_)
\* the distinct keys of a set, in groupby order
OrdenarClaves(claves) ==
    IF claves = {} THEN <<>>
    ELSE LET k == CHOOSE x \in claves : TRUE
         IN  InsertarClave(k, OrdenarClaves(claves \ {k}))

\* mutant: groupby with its default dropna=True drops the keys with a missing part
Mut_ClavesDeGrupoSinNulos(filas) ==
    OrdenarClaves({k \in {Clave(filas[i]) : i \in 1..Len(filas)} : ~ClaveTieneNulo(k)})

\* groupby(CLAVE_MICROZONA, dropna=False): the group keys, sorted
ClavesDeGrupo(filas) == OrdenarClaves({Clave(filas[i]) : i \in 1..Len(filas)})

\* the rows of one group, in table order
FilasDeClave(filas, k) == SelectSeq(filas, LAMBDA f : Clave(f) = k)

RECURSIVE SumaDe(_, _)
\* sum of an integer column over a sequence of rows
SumaDe(filas, columna) ==
    IF filas = <<>> THEN 0 ELSE Head(filas)[columna] + SumaDe(Tail(filas), columna)

\* sorted(names): the column names of the three sources in str order
OrdenColumnas ==
    <<"anio", "avance_fisico", "clase", "conexiones_agua", "conexiones_alcantarillado",
      "contratista_consultor", "costo_total", "departamento", "distrito",
      "equipo_comercial", "etapa", "fecha_corte", "fecha_fin", "fecha_inicio",
      "gerencia_servicios", "mes", "nombre_proyecto", "provincia", "red_primaria",
      "red_secundaria", "tarifa", "ubigeo">>

Sorted(nombres) == SelectSeq(OrdenColumnas, LAMBDA c : c \in nombres)

-----------------------------------------------------------------------------
(* src/limpieza_conexiones.py                                               *)
(*                                                                         *)
(* A raw table is [columnas, filas]: the set of column names of the file    *)
(* (already stripped and lowercased) and its rows.  A text cell is a string *)
(* or NA; a numeric cell is what pd.to_numeric(errors="coerce") makes of    *)
(* it, <<>> or <<h>> for the number h/2; a date cell is what pd.to_datetime *)
(* (errors="coerce") makes of it, <<>> or <<year, month, day>>.             *)

COLUMNAS_OBLIGATORIAS ==
    {"gerencia_servicios", "equipo_comercial", "departamento", "provincia", "distrito",
     "ubigeo", "tarifa", "conexiones_agua", "conexiones_alcantarillado", "fecha_corte"}

\* a cleaned table, or the ValueError of a validation
TablaLimpia(columnas, filas) == [error |-> <<>>, columnas |-> columnas, filas |-> filas]

ErrorColumnas(origen, faltantes) ==
    [error |-> <<origen, Sorted(faltantes)>>, columnas |-> <<>>, filas |-> <<>>]

\* _normalizar_cadenas(..., preservar_espacios=False), the only way it is called
normalizar_cadenas(v) == Upper(Strip(FillnaTexto(v)))

CategoriasValidas ==
    {<<"S", "O", "C", "I", "A", "L">>,
     <<"D", "O", "M", "E", "S", "T", "I", "C", "O">>,
     <<"C", "O", "M", "E", "R", "C", "I", "A", "L">>,
     <<"I", "N", "D", "U", "S", "T", "R", "I", "A", "L">>,
     <<"E", "S", "T", "A", "T", "A", "L">>}

normalizar_tarifa(v) ==
    LET series == Upper(Strip(FillnaTexto(v)))
    IN  IF series \in CategoriasValidas THEN series ELSE <<"O", "T", "R", "A", "S">>

\* round() of h/2, h >= 0: to the nearest integer, ties to the even one
RedondearMitades(h) ==
    LET piso == h \div 2
    IN  IF h % 2 = 0 THEN piso ELSE IF piso % 2 = 0 THEN piso ELSE piso + 1

\* _normalizar_valores_enteros(..., minimo=minimo) on one numeric cell
normalizar_valores_enteros(v, minimo) ==
    IF EsNulo(v) THEN 0
    ELSE RedondearMitades(IF v[1] < 2 * minimo THEN 2 * minimo ELSE v[1])

\* where(between(bajo, alto)) on a whole number
EnRango(v, bajo, alto) ==
    IF EsNulo(v) THEN v ELSE IF bajo <= v[1] /\ v[1] <= alto THEN v ELSE <<>>

\* fillna(otro)
Fillna(v, otro) == IF EsNulo(v) THEN otro ELSE v

\* dt.year (parte 1) and dt.month (parte 2) of a date cell
ParteDeFecha(fecha, parte) == IF EsNulo(fecha) THEN <<>> ELSE <<fecha[parte]>>

\* the anio / mes cells of a raw row; a file without the column has none
CeldaOpcional(t, fila, columna) == IF columna \in t.columnas THEN fila[columna] ELSE <<>>

\* the row after every normalization step of limpiar_conexiones
NormalizarFilaConexiones(t, fila) ==
    [ubigeo |-> SanearUbigeoConexiones(fila.ubigeo),
     distrito |-> normalizar_cadenas(fila.distrito),
     gerencia_servicios |-> normalizar_cadenas(fila.gerencia_servicios),
     equipo_comercial |-> normalizar_cadenas(fila.equipo_comercial),
     anio |-> Fillna(EnRango(CeldaOpcional(t, fila, "anio"), 2000, 2100),
                     ParteDeFecha(fila.fecha_corte, 1)),
     mes |-> Fillna(EnRango(CeldaOpcional(t, fila, "mes"), 1, 12), ParteDeFecha(fila.fecha_corte, 2)),
     departamento |-> normalizar_cadenas(fila.departamento),
     provincia |-> normalizar_cadenas(fila.provincia),
     tarifa |-> normalizar_tarifa(fila.tarifa),
     conexiones_agua |-> normalizar_valores_enteros(fila.conexiones_agua, 0),
     conexiones_alcantarillado |->
         normalizar_valores_enteros(fila.conexiones_alcantarillado, 0),
     fecha_corte |-> fila.fecha_corte]

\* _obtener_moda: the most frequent value, the smallest one on a tie
obtener_moda(valores) ==
    LET Veces(x) == Cardinality({i \in 1..Len(valores) : valores[i] = x})
        presentes == {valores[i] : i \in 1..Len(valores)}
        frecuentes == {x \in presentes : \A y \in presentes :
                          Veces(y) <= Veces(x)}
    IN  IF valores = <<>> THEN NA
        ELSE CHOOSE x \in frecuentes : \A y \in frecuentes : x = y \/ TextoMenor(x, y)

\* max of a date column, missing dates skipped
FechaMaxima(filas) ==
    LET fechas == {filas[i].fecha_corte : i \in 1..Len(filas)} \ {<<>>}
        FechaMenor(a, b) == \/ a[1] < b[1]
                            \/ a[1] = b[1] /\ a[2] < b[2]
                            \/ a[1] = b[1] /\ a[2] = b[2] /\ a[3] < b[3]
    IN  IF fechas = {} THEN <<>>
        ELSE CHOOSE f \in fechas : \A g \in fechas : f = g \/ FechaMenor(g, f)

Columna(filas, nombre) == [i \in 1..Len(filas) |-> filas[i][nombre]]

ColumnasConexiones ==
    CLAVE_MICROZONA \o <<"conexiones_agua", "conexiones_alcantarillado", "fecha_corte",
                         "departamento", "provincia", "tarifa_predominante">>

\* _agrupar_por_microzona; the sums are cells of Int64 columns, <<n>>
agrupar_por_microzona(filas) ==
    LET claves == ClavesDeGrupo(filas)
    IN  [g \in 1..Len(claves) |->
            LET grupo == FilasDeClave(filas, claves[g])
            IN  [ubigeo |-> claves[g][1], distrito |-> claves[g][2],
                 gerencia_servicios |-> claves[g][3], equipo_comercial |-> claves[g][4],
                 anio |-> claves[g][5], mes |-> claves[g][6],
                 conexiones_agua |-> <<SumaDe(grupo, "conexiones_agua")>>,
                 conexiones_alcantarillado |->
                     <<SumaDe(grupo, "conexiones_alcantarillado")>>,
                 fecha_corte |-> FechaMaxima(grupo),
                 departamento |-> obtener_moda(Columna(grupo, "departamento")),
                 provincia |-> obtener_moda(Columna(grupo, "provincia")),
                 tarifa_predominante |-> obtener_moda(Columna(grupo, "tarifa"))]]

limpiar_conexiones(t) ==
    IF COLUMNAS_OBLIGATORIAS \ t.columnas # {}
    THEN ErrorColumnas("conexiones", COLUMNAS_OBLIGATORIAS \ t.columnas)
    ELSE TablaLimpia(ColumnasConexiones,
                     agrupar_por_microzona(
                         [i \in 1..Len(t.filas) |->
                             NormalizarFilaConexiones(t, t.filas[i])]))

-----------------------------------------------------------------------------
(* src/limpieza_longitudes.py                                               *)
(*                                                                         *)
(* Lengths are floats in the program; the model carries them as exact       *)
(* rationals (the cells of the model are halves, whose sums are exact in    *)
(* binary64 as well).                                                       *)

COLUMNAS_OBLIGATORIAS_LONGITUD ==
    {"gerencia_servicios", "equipo_comercial", "departamento", "provincia", "distrito",
     "ubigeo", "clase", "red_primaria", "red_secundaria", "anio", "mes"}

AGUA == <<"A", "G", "U", "A">>

DESAGUE == <<"D", "E", "S", "A", "G", "U", "E">>

CLASES_VALIDAS == {AGUA, DESAGUE}

\* The orders in which a process can iterate over the set CLASES_VALIDAS: the
\* iteration order of a set of str follows the string hashes, which are salted
\* per process (PYTHONHASHSEED).
OrdenesDeClases == {<<AGUA, DESAGUE>>, <<DESAGUE, AGUA>>}

\* _normalizar_texto(..., recortar=recortar) on one cell
normalizar_texto_longitudes(v, recortar) ==
    IF recortar THEN Strip(Upper(FillnaTexto(v)))
    ELSE ColapsarEspacios(Upper(FillnaTexto(v)))

NormalizarClase(v) ==
    LET clase == Upper(Strip(FillnaTexto(v)))
    IN  IF clase \in CLASES_VALIDAS THEN clase ELSE NA

\* mutant: no lower limit, a negative length stays negative
Mut_NormalizarFlotantesSinMinimo(v) == IF EsNulo(v) THEN QEntero(0) ELSE Q(v[1], 2)

\* _normalizar_flotantes(..., minimo=0.0) on one numeric cell (h stands for h/2)
normalizar_flotantes(v) ==
    IF EsNulo(v) THEN QEntero(0) ELSE IF v[1] < 0 THEN QEntero(0) ELSE Q(v[1], 2)

NormalizarFilaLongitudes(fila) ==
    [ubigeo |-> SanearUbigeoLongitudes(fila.ubigeo),
     distrito |-> normalizar_texto_longitudes(fila.distrito, TRUE),
     gerencia_servicios |-> normalizar_texto_longitudes(fila.gerencia_servicios, FALSE),
     equipo_comercial |-> normalizar_texto_longitudes(fila.equipo_comercial, FALSE),
     anio |-> EnRango(fila.anio, 2000, 2100),
     mes |-> EnRango(fila.mes, 1, 12),
     departamento |-> normalizar_texto_longitudes(fila.departamento, TRUE),
     provincia |-> normalizar_texto_longitudes(fila.provincia, TRUE),
     clase |-> NormalizarClase(fila.clase),
     red_primaria |-> normalizar_flotantes(fila.red_primaria),
     red_secundaria |-> normalizar_flotantes(fila.red_secundaria)]

RECURSIVE QSumaDe(_, _)
\* sum of a float column over a sequence of rows
QSumaDe(filas, columna) ==
    IF filas = <<>> THEN QEntero(0)
    ELSE QSuma(Head(filas)[columna], QSumaDe(Tail(filas), columna))

\* pivot_table(index=CLAVE_MICROZONA, columns="clase") groups with dropna=True:
\* the rows with a missing key part or a missing class do not enter the pivot
FilasDelPivote(filas) ==
    SelectSeq(filas, LAMBDA f : ~ClaveTieneNulo(Clave(f)) /\ ~IsNA(f.clase))

ClasesPresentes(filas) == {filas[i].clase : i \in 1..Len(filas)}

\* the value columns of the pivot, sorted by (value name, class)
ColumnasDelPivote(filas) ==
    SelectSeq(<<"red_primaria_agua", "red_primaria_desague",
                "red_secundaria_agua", "red_secundaria_desague">>,
              LAMBDA c : \/ AGUA \in ClasesPresentes(filas)
                            /\ c \in {"red_primaria_agua", "red_secundaria_agua"}
                         \/ DESAGUE \in ClasesPresentes(filas)
                            /\ c \in {"red_primaria_desague", "red_secundaria_desague"})

ColumnasDeTotales(orden) ==
    [i \in 1..Len(orden) |->
        IF orden[i] = AGUA THEN "longitud_total_agua" ELSE "longitud_total_desague"]

\* one cell of the pivot: the sum of the (key, class) group, fill_value where the
\* key has no row of a class that is a column, NaN where the class is no column
ValorDelPivote(filas, k, clase, columna) ==
    IF clase \notin ClasesPresentes(filas) THEN NaN
    ELSE QSumaDe(SelectSeq(filas, LAMBDA f : Clave(f) = k /\ f.clase = clase), columna)

TotalDeClase(filas, k, clase) ==
    IF clase \notin ClasesPresentes(filas) THEN QEntero(0)
    ELSE QSuma(ValorDelPivote(filas, k, clase, "red_primaria"),
               ValorDelPivote(filas, k, clase, "red_secundaria"))

\* mutant: the pivot keeps one row per (key, class) pair instead of one per key
Mut_ConstruirResumenPorClase(filas, orden) ==
    LET pivote == FilasDelPivote(filas)
    IN  TablaLimpia(
            CLAVE_MICROZONA \o ColumnasDelPivote(pivote) \o ColumnasDeTotales(orden),
            [g \in 1..Len(pivote) |->
                LET k == Clave(pivote[g])
                IN  [ubigeo |-> k[1], distrito |-> k[2], gerencia_servicios |-> k[3],
                     equipo_comercial |-> k[4], anio |-> k[5], mes |-> k[6],
                     red_primaria_agua |-> ValorDelPivote(pivote, k, AGUA, "red_primaria"),
                     red_primaria_desague |->
                         ValorDelPivote(pivote, k, DESAGUE, "red_primaria"),
                     red_secundaria_agua |->
                         ValorDelPivote(pivote, k, AGUA, "red_secundaria"),
                     red_secundaria_desague |->
                         ValorDelPivote(pivote, k, DESAGUE, "red_secundaria"),
                     longitud_total_agua |-> TotalDeClase(pivote, k, AGUA),
                     longitud_total_desague |-> TotalDeClase(pivote, k, DESAGUE)]])

\* _construir_resumen; orden is the iteration order of CLASES_VALIDAS in this process
construir_resumen(filas, orden) ==
    LET pivote == FilasDelPivote(filas)
        claves == ClavesDeGrupo(pivote)
    IN  TablaLimpia(
            CLAVE_MICROZONA \o ColumnasDelPivote(pivote) \o ColumnasDeTotales(orden),
            [g \in 1..Len(claves) |->
                LET k == claves[g]
                IN  [ubigeo |-> k[1], distrito |-> k[2], gerencia_servicios |-> k[3],
                     equipo_comercial |-> k[4], anio |-> k[5], mes |-> k[6],
                     red_primaria_agua |-> ValorDelPivote(pivote, k, AGUA, "red_primaria"),
                     red_primaria_desague |->
                         ValorDelPivote(pivote, k, DESAGUE, "red_primaria"),
                     red_secundaria_agua |->
                         ValorDelPivote(pivote, k, AGUA, "red_secundaria"),
                     red_secundaria_desague |->
                         ValorDelPivote(pivote, k, DESAGUE, "red_secundaria"),
                     longitud_total_agua |-> TotalDeClase(pivote, k, AGUA),
                     longitud_total_desague |-> TotalDeClase(pivote, k, DESAGUE)]])

limpiar_longitudes(t, orden) ==
    IF COLUMNAS_OBLIGATORIAS_LONGITUD \ t.columnas # {}
    THEN ErrorColumnas("longitudes", COLUMNAS_OBLIGATORIAS_LONGITUD \ t.columnas)
    ELSE construir_resumen(
             [i \in 1..Len(t.filas) |-> NormalizarFilaLongitudes(t.filas[i])], orden)

-----------------------------------------------------------------------------
(* src/limpieza_proyectos.py                                                *)
(*                                                                         *)
(* The characters of the model are ASCII: every one of them survives the    *)
(* latin-1 round trip of _normalizar_contratista, and the accented key of   *)
(* ETAPAS_CANONICAS cannot be written with them.                            *)

COLUMNAS_OBLIGATORIAS_PROYECTO ==
    {"gerencia_servicios", "equipo_comercial", "departamento", "provincia", "distrito",
     "ubigeo", "nombre_proyecto", "etapa", "avance_fisico", "fecha_inicio", "fecha_fin",
     "fecha_corte", "costo_total", "contratista_consultor"}

columnas_faltantes_toleradas == {"gerencia_servicios", "equipo_comercial"}

CERRADO == <<"C", "E", "R", "R", "A", "D", "O">>

\* ETAPAS_CANONICAS.get(etapa), SIN ETAPA for a stage that is no key
ETAPAS_CANONICAS(etapa) ==
    LET OBRA == <<"O", "B", "R", "A">>
        EXPEDIENTE_TECNICO == <<"E", "X", "P", "E", "D", "I", "E", "N", "T", "E", " ",
                                "T", "E", "C", "N", "I", "C", "O">>
        LIQUIDACION == <<"L", "I", "Q", "U", "I", "D", "A", "C", "I", "O", "N">>
        PARALIZADO == <<"P", "A", "R", "A", "L", "I", "Z", "A", "D", "O">>
    IN  CASE etapa = EXPEDIENTE_TECNICO -> EXPEDIENTE_TECNICO
          [] etapa = OBRA -> OBRA
          [] etapa = <<"E", "J", "E", "C", "U", "C", "I", "O", "N">> -> OBRA
          [] etapa = LIQUIDACION -> LIQUIDACION
          [] etapa = CERRADO -> CERRADO
          [] etapa = PARALIZADO -> PARALIZADO
          [] etapa = <<"E", "S", "T", "U", "D", "I", "O", " ",
                       "D", "E", "F", "I", "N", "I", "T", "I", "V", "O">>
                 -> EXPEDIENTE_TECNICO
          [] OTHER -> <<"S", "I", "N", " ", "E", "T", "A", "P", "A">>

normalizar_texto_proyectos(v) == ColapsarEspacios(Upper(Strip(FillnaTexto(v))))

RECURSIVE ReemplazarY(_)
\* str.replace(" Y ", "/", regex=False)
ReemplazarY(s) ==
    IF Len(s) < 3 THEN s
    ELSE IF SubSeq(s, 1, 3) = <<" ", "Y", " ">>
         THEN <<"/">> \o ReemplazarY(SubSeq(s, 4, Len(s)))
         ELSE <<Head(s)>> \o ReemplazarY(Tail(s))

RECURSIVE Split(_, _)
\* str.split(sep) for a one-character separator
Split(s, sep) ==
    IF \A i \in 1..Len(s) : s[i] # sep THEN <<s>>
    ELSE LET p == CHOOSE i \in 1..Len(s) : s[i] = sep /\ \A j \in 1..(i - 1) : s[j] # sep
         IN  <<SubSeq(s, 1, p - 1)>> \o Split(SubSeq(s, p + 1, Len(s)), sep)

\* the districts of one cell, in order: one exploded row for each
DistritosDe(v) ==
    LET partes == Split(ReemplazarY(ColapsarEspacios(Upper(FillnaTexto(v)))), "/")
    IN  [i \in 1..Len(partes) |-> Strip(partes[i])]

\* characters kept by [^\w\s-] (the accented capitals of the pattern are outside
\* the alphabet of the model)
EsDeNombre(c) ==
    \/ c \in Digitos \/ c \in Espacios \/ c \in {"-", "_"}
    \/ \E i \in 1..26 : c = Mayusculas[i] \/ c = Minusculas[i]

normalizar_nombre_proyecto(v) ==
    LET limpio == [i \in 1..Len(FillnaTexto(v)) |->
                      IF EsDeNombre(FillnaTexto(v)[i]) THEN FillnaTexto(v)[i] ELSE " "]
    IN  Strip(ColapsarEspacios(Upper(limpio)))

normalizar_contratista(v) == Strip(Upper(FillnaTexto(v)))

normalizar_etapas(v) == ETAPAS_CANONICAS(Strip(Upper(FillnaTexto(v))))

\* _normalizar_avance on one numeric cell (h stands for h/2): clip to [0, 100]
normalizar_avance(v) ==
    IF EsNulo(v) THEN QEntero(0)
    ELSE IF v[1] < 0 THEN QEntero(0)
    ELSE IF v[1] > 200 THEN QEntero(100) ELSE Q(v[1], 2)

\* _normalizar_costo on one numeric cell
normalizar_costo(v) == IF EsNulo(v) THEN QEntero(0) ELSE Q(v[1], 2)

\* the rows one raw row becomes: every step of limpiar_proyectos, one row per district
NormalizarFilaProyectos(t, fila) ==
    LET tolerada(columna) == IF columna \in t.columnas THEN fila[columna] ELSE NA
        distritos == DistritosDe(fila.distrito)
    IN  [d \in 1..Len(distritos) |->
            [ubigeo |-> SanearUbigeoProyectos(fila.ubigeo),
             distrito |-> distritos[d],
             gerencia_servicios |->
                 normalizar_texto_proyectos(tolerada("gerencia_servicios")),
             equipo_comercial |-> normalizar_texto_proyectos(tolerada("equipo_comercial")),
             anio |-> Fillna(EnRango(CeldaOpcional(t, fila, "anio"), 2000, 2100),
                             ParteDeFecha(fila.fecha_corte, 1)),
             mes |-> Fillna(EnRango(CeldaOpcional(t, fila, "mes"), 1, 12),
                            ParteDeFecha(fila.fecha_corte, 2)),
             departamento |-> normalizar_texto_proyectos(fila.departamento),
             provincia |-> normalizar_texto_proyectos(fila.provincia),
             nombre_proyecto |-> normalizar_nombre_proyecto(fila.nombre_proyecto),
             contratista_consultor |-> normalizar_contratista(fila.contratista_consultor),
             etapa |-> normalizar_etapas(fila.etapa),
             avance_fisico |-> normalizar_avance(fila.avance_fisico),
             costo_total |-> normalizar_costo(fila.costo_total),
             fecha_inicio |-> fila.fecha_inicio,
             fecha_fin |-> fila.fecha_fin,
             fecha_corte |-> fila.fecha_corte]]

RECURSIVE Explotar(_, _)
\* the exploded rows of the whole table, in table order
Explotar(t, filas) ==
    IF filas = <<>> THEN <<>>
    ELSE NormalizarFilaProyectos(t, Head(filas)) \o Explotar(t, Tail(filas))

ColumnasProyectos ==
    <<"gerencia_servicios", "equipo_comercial", "departamento", "provincia", "distrito",
      "ubigeo", "nombre_proyecto", "etapa", "avance_fisico", "fecha_inicio", "fecha_fin",
      "fecha_corte", "costo_total", "contratista_consultor", "anio", "mes">>

\* mutant: the two columns are not added before the validation
Mut_LimpiarProyectosSinTolerancia(t) ==
    IF COLUMNAS_OBLIGATORIAS_PROYECTO \ t.columnas # {}
    THEN ErrorColumnas("proyectos", COLUMNAS_OBLIGATORIAS_PROYECTO \ t.columnas)
    ELSE TablaLimpia(ColumnasProyectos, Explotar(t, t.filas))

limpiar_proyectos(t) ==
    IF COLUMNAS_OBLIGATORIAS_PROYECTO \ (t.columnas \cup columnas_faltantes_toleradas) # {}
    THEN ErrorColumnas("proyectos", COLUMNAS_OBLIGATORIAS_PROYECTO
                                       \ (t.columnas \cup columnas_faltantes_toleradas))
    ELSE TablaLimpia(ColumnasProyectos, Explotar(t, t.filas))

-----------------------------------------------------------------------------
(* src/etl_sedapal.py                                                       *)

\* mutant: every project counts as active, the closed ones included
Mut_AgruparProyectosCuentaCerrados(filas) ==
    LET claves == ClavesDeGrupo(filas)
    IN  [g \in 1..Len(claves) |->
            LET grupo == FilasDeClave(filas, claves[g])
                activos == grupo
            IN  [ubigeo |-> claves[g][1], distrito |-> claves[g][2],
                 gerencia_servicios |-> claves[g][3], equipo_comercial |-> claves[g][4],
                 anio |-> claves[g][5], mes |-> claves[g][6],
                 conteo_proyectos_activos |-> QEntero(Len(activos)),
                 avance_promedio_proyectos |->
                     QDiv(QSumaDe(grupo, "avance_fisico"), QEntero(Len(grupo))),
                 faltan_datos_proyectos |->
                     IF \E i \in 1..Len(grupo) : IsNA(grupo[i].ubigeo)
                     THEN QEntero(1) ELSE QEntero(0)]]

\* _agrupar_proyectos
agrupar_proyectos(filas) ==
    LET claves == ClavesDeGrupo(filas)
    IN  [g \in 1..Len(claves) |->
            LET grupo == FilasDeClave(filas, claves[g])
                activos == SelectSeq(grupo, LAMBDA f : Upper(f.etapa) # CERRADO)
            IN  [ubigeo |-> claves[g][1], distrito |-> claves[g][2],
                 gerencia_servicios |-> claves[g][3], equipo_comercial |-> claves[g][4],
                 anio |-> claves[g][5], mes |-> claves[g][6],
                 conteo_proyectos_activos |-> QEntero(Len(activos)),
                 avance_promedio_proyectos |->
                     QDiv(QSumaDe(grupo, "avance_fisico"), QEntero(Len(grupo))),
                 faltan_datos_proyectos |->
                     IF \E i \in 1..Len(grupo) : IsNA(grupo[i].ubigeo)
                     THEN QEntero(1) ELSE QEntero(0)]]

\* the columns a left merge takes from the right table when no row matches
SinLongitudes ==
    [red_primaria_agua |-> NaN, red_primaria_desague |-> NaN,
     red_secundaria_agua |-> NaN, red_secundaria_desague |-> NaN,
     longitud_total_agua |-> NaN, longitud_total_desague |-> NaN]

SinProyectos ==
    [conteo_proyectos_activos |-> NaN, avance_promedio_proyectos |-> NaN,
     faltan_datos_proyectos |-> NaN]

RECURSIVE MergeLeft(_, _, _)
\* izquierda.merge(derecha, on=CLAVE_MICROZONA, how="left"): every left row, in
\* order, once per right row of the same key (missing key parts match each
\* other), or once with the right columns missing
MergeLeft(izquierda, derecha, sin_pareja) ==
    IF izquierda = <<>> THEN <<>>
    ELSE LET parejas == FilasDeClave(derecha, Clave(Head(izquierda)))
         IN  (IF parejas = <<>> THEN <<Head(izquierda) @@ sin_pareja>>
              ELSE [j \in 1..Len(parejas) |-> Head(izquierda) @@ parejas[j]])
             \o MergeLeft(Tail(izquierda), derecha, sin_pareja)

ColumnasDeLongitudes(longitudes) ==
    SelectSeq(longitudes.columnas,
              LAMBDA c : \A i \in 1..Len(CLAVE_MICROZONA) : CLAVE_MICROZONA[i] # c)

columnas_proyectos ==
    <<"conteo_proyectos_activos", "avance_promedio_proyectos", "faltan_datos_proyectos">>

\* fillna(0.0) of the columns that came from the lengths table
\* mutant: only the columns of the networks are filled, not the totals
Mut_RellenarSoloRedes(fila, columnas) ==
    LET relleno(nombre) ==
            IF \E i \in 1..Len(columnas) : columnas[i] = nombre
            THEN Fillna(fila[nombre], QEntero(0)) ELSE fila[nombre]
    IN  [red_primaria_agua |-> relleno("red_primaria_agua"),
         red_primaria_desague |-> relleno("red_primaria_desague"),
         red_secundaria_agua |-> relleno("red_secundaria_agua"),
         red_secundaria_desague |-> relleno("red_secundaria_desague"),
         longitud_total_agua |-> fila.longitud_total_agua,
         longitud_total_desague |-> fila.longitud_total_desague]

RellenarLongitudes(fila, columnas) ==
    LET relleno(nombre) ==
            IF \E i \in 1..Len(columnas) : columnas[i] = nombre
            THEN Fillna(fila[nombre], QEntero(0)) ELSE fila[nombre]
    IN  [red_primaria_agua |-> relleno("red_primaria_agua"),
         red_primaria_desague |-> relleno("red_primaria_desague"),
         red_secundaria_agua |-> relleno("red_secundaria_agua"),
         red_secundaria_desague |-> relleno("red_secundaria_desague"),
         longitud_total_agua |-> relleno("longitud_total_agua"),
         longitud_total_desague |-> relleno("longitud_total_desague")]

\* fillna(0) / fillna(0.0) of the three project columns
RellenarProyectos(fila) ==
    [conteo_proyectos_activos |-> Fillna(fila.conteo_proyectos_activos, QEntero(0)),
     avance_promedio_proyectos |-> Fillna(fila.avance_promedio_proyectos, QEntero(0)),
     faltan_datos_proyectos |-> Fillna(fila.faltan_datos_proyectos, QEntero(0))]

\* mutant: the columns of the lengths table are not filled after the merge
Mut_EnriquecerSinRellenar(conexiones, longitudes, proyectos) ==
    LET df_base == MergeLeft(MergeLeft(conexiones.filas, longitudes.filas, SinLongitudes),
                             agrupar_proyectos(proyectos.filas), SinProyectos)
    IN  [columnas |-> conexiones.columnas \o ColumnasDeLongitudes(longitudes)
                          \o columnas_proyectos,
         filas |-> [i \in 1..Len(df_base) |-> RellenarProyectos(df_base[i]) @@ df_base[i]]]

\* enriquecer_microzonas
enriquecer_microzonas(conexiones, longitudes, proyectos) ==
    LET df_base == MergeLeft(MergeLeft(conexiones.filas, longitudes.filas, SinLongitudes),
                             agrupar_proyectos(proyectos.filas), SinProyectos)
    IN  [columnas |-> conexiones.columnas \o ColumnasDeLongitudes(longitudes)
                          \o columnas_proyectos,
         filas |-> [i \in 1..Len(df_base) |->
                       RellenarLongitudes(df_base[i], ColumnasDeLongitudes(longitudes))
                       @@ RellenarProyectos(df_base[i]) @@ df_base[i]]]

TieneColumna(t, nombre) == \E i \in 1..Len(t.columnas) : t.columnas[i] = nombre

\* The lambda of ratio_conexiones_alcantarillado on one row.  In a row taken
\* from an Int64 column a missing count is pd.NA, and "pd.NA or 0" raises
\* TypeError (the truth value of NA is ambiguous); in a row taken from a float
\* column it is nan, which is truthy and not greater than 0.
RatioFalla(fila, dtype) == EsNulo(fila.conexiones_agua) /\ dtype = "Int64"

RatioConexiones(fila) ==
    IF EsNulo(fila.conexiones_agua) THEN QEntero(0)
    ELSE IF fila.conexiones_agua[1] > 0
         THEN Q(fila.conexiones_alcantarillado[1], fila.conexiones_agua[1])
         ELSE QEntero(0)

\* densidad_red_<clase> of one row; clase is the name of the longitud_total column
DensidadRed(t, fila, clase) ==
    LET suma_columna == IF TieneColumna(t, clase) THEN fila[clase] ELSE QEntero(0)
        conexiones == IF EsNulo(fila.conexiones_agua) THEN NaN
                      ELSE IF fila.conexiones_agua[1] = 0 THEN NaN
                      ELSE QEntero(fila.conexiones_agua[1])
    IN  IF EsNulo(suma_columna) \/ EsNulo(conexiones) THEN QEntero(0)
        ELSE QDiv(suma_columna, conexiones)

FaltanDatosLongitud(t, fila) ==
    IF \/ TieneColumna(t, "longitud_total_agua") /\ EsNulo(fila.longitud_total_agua)
       \/ TieneColumna(t, "longitud_total_desague") /\ EsNulo(fila.longitud_total_desague)
    THEN 1 ELSE 0

\* mutant: a missing count of water does not raise the flag
Mut_RegistrosInconsistentesSinNulo(fila) ==
    IF EsNulo(fila.conexiones_agua) THEN 0
    ELSE IF fila.conexiones_agua[1] < fila.conexiones_alcantarillado[1] THEN 1 ELSE 0

RegistrosInconsistentes(fila) ==
    IF EsNulo(fila.conexiones_agua) THEN 1
    ELSE IF fila.conexiones_agua[1] < fila.conexiones_alcantarillado[1] THEN 1 ELSE 0

ColumnasDeIndicadores ==
    <<"ratio_conexiones_alcantarillado", "densidad_red_agua", "densidad_red_desague",
      "faltan_datos_longitud", "registros_inconsistentes">>

\* calcular_indicadores; dtype is the dtype of the conexiones_agua column.  The
\* tables of the model have no missing conexiones_alcantarillado.
calcular_indicadores(t, dtype) ==
    IF \E i \in 1..Len(t.filas) : RatioFalla(t.filas[i], dtype)
    THEN [error |-> <<"TypeError", <<>>>>, columnas |-> <<>>, filas |-> <<>>]
    ELSE IF ~TieneColumna(t, "faltan_datos_proyectos")
    THEN [error |-> <<"KeyError", <<>>>>, columnas |-> <<>>, filas |-> <<>>]
    ELSE TablaLimpia(
             t.columnas \o ColumnasDeIndicadores,
             [i \in 1..Len(t.filas) |->
                 [ratio_conexiones_alcantarillado |-> RatioConexiones(t.filas[i]),
                  densidad_red_agua |-> DensidadRed(t, t.filas[i], "longitud_total_agua"),
                  densidad_red_desague |->
                      DensidadRed(t, t.filas[i], "longitud_total_desague"),
                  faltan_datos_longitud |-> FaltanDatosLongitud(t, t.filas[i]),
                  faltan_datos_proyectos |->
                      Fillna(t.filas[i].faltan_datos_proyectos, QEntero(0)),
                  registros_inconsistentes |-> RegistrosInconsistentes(t.filas[i])]
                 @@ t.filas[i]])

RECURSIVE EnteroDe(_)
\* int(text) of a string of digits
EnteroDe(s) ==
    IF s = <<>> THEN 0
    ELSE 10 * EnteroDe(SubSeq(s, 1, Len(s) - 1))
         + (Posicion(s[Len(s)], OrdenCaracteres) - Posicion("0", OrdenCaracteres))

RECURSIVE DigitosDe(_)
\* str(n) of a non-negative integer
DigitosDe(n) ==
    IF n < 10 THEN <<OrdenCaracteres[Posicion("0", OrdenCaracteres) + n]>>
    ELSE DigitosDe(n \div 10) \o DigitosDe(n % 10)

\* the ubigeo column of the file: astype("Int64"), then f"{int(valor):06d}" or ""
UbigeoDeSalida(v) == IF IsNA(v) THEN <<>> ELSE Zfill(DigitosDe(EnteroDe(v)), 6)

\* guardar_resultados: the content of the CSV, header and rows of cells in
\* column order; the three text columns go through
\* astype("string").fillna("").str.strip()
guardar_resultados(t) ==
    [existe |-> TRUE,
     columnas |-> t.columnas,
     filas |-> [i \in 1..Len(t.filas) |->
                   [j \in 1..Len(t.columnas) |->
                       IF t.columnas[j] \in {"distrito", "gerencia_servicios",
                                             "equipo_comercial"}
                       THEN Strip(FillnaTexto(t.filas[i][t.columnas[j]]))
                       ELSE IF t.columnas[j] = "ubigeo"
                            THEN UbigeoDeSalida(t.filas[i].ubigeo)
                            ELSE t.filas[i][t.columnas[j]]]]]

-----------------------------------------------------------------------------
(* The three input files of ejecutar_etl                                    *)

GS == <<"g", "s">>

EC == <<"e", "c">>

LIMA == <<"L", "I", "M", "A">>

ATE == <<"A", "T", "E">>

U150101 == <<"1", "5", "0", "1", "0", "1">>

\* seven digits: not a ubigeo
U1501011 == <<"1", "5", "0", "1", "0", "1", "1">>

FilaConexion(ubigeo, distrito, provincia, tarifa, agua, alcantarillado, fecha, anio, mes) ==
    [gerencia_servicios |-> GS \o <<" ">>, equipo_comercial |-> EC,
     departamento |-> LIMA, provincia |-> provincia, distrito |-> distrito,
     ubigeo |-> ubigeo, tarifa |-> tarifa, conexiones_agua |-> agua,
     conexiones_alcantarillado |-> alcantarillado, fecha_corte |-> fecha,
     anio |-> anio, mes |-> mes]

\* two rows of one microzone (counts 10 and 4.5; 2.5 and -2) and a row with no
\* count of water, a ubigeo of seven digits and no valid date
FilasConexiones ==
    {FilaConexion(U150101, <<" ", "a", "t", "e">>, LIMA, <<"s", "o", "c", "i", "a", "l">>,
                  <<20>>, <<9>>, <<2024, 12, 31>>, <<>>, <<>>),
     FilaConexion(U150101, ATE, <<"C", "A", "L", "L", "A", "O">>, <<"x">>,
                  <<5>>, <<-4>>, <<2024, 11, 30>>, <<2024>>, <<12>>),
     FilaConexion(U1501011, ATE, LIMA, NA, <<>>, <<6>>, <<>>, <<1999>>, <<13>>)}

\* rows of the connections file
MaxFilasFuente == 2

ConexionesCrudas ==
    {[columnas |-> COLUMNAS_OBLIGATORIAS \cup {"anio", "mes"}, filas |-> f] :
        f \in Secuencias(FilasConexiones, MaxFilasFuente)}
    \cup {[columnas |-> COLUMNAS_OBLIGATORIAS, filas |-> f] :
             f \in {s \in Secuencias(FilasConexiones, 1) : Len(s) = 1}}
    \cup {[columnas |-> (COLUMNAS_OBLIGATORIAS \ {"ubigeo", "tarifa"}) \cup {"anio", "mes"},
           filas |-> f] : f \in {s \in Secuencias(FilasConexiones, 1) : Len(s) = 1}}

FilaLongitud(ubigeo, distrito, clase, red_primaria, red_secundaria, anio, mes) ==
    [gerencia_servicios |-> GS, equipo_comercial |-> EC,
     departamento |-> LIMA, provincia |-> LIMA, distrito |-> distrito,
     ubigeo |-> ubigeo, clase |-> clase, red_primaria |-> red_primaria,
     red_secundaria |-> red_secundaria, anio |-> anio, mes |-> mes]

L_AguaAte ==
    FilaLongitud(U150101, ATE, <<" ", "a", "g", "u", "a">>, <<6>>, <<3>>, <<2024>>, <<12>>)

L_DesagueAte == FilaLongitud(U150101, ATE, DESAGUE, <<-2>>, <<5>>, <<2024>>, <<12>>)

L_AguaLince ==
    FilaLongitud(<<"1", "5", "0", "1", "1", "6">>, <<"L", "I", "N", "C", "E">>, AGUA,
                 <<4>>, <<>>, <<2024>>, <<12>>)

L_OtraClase ==
    FilaLongitud(U150101, ATE, <<"g", "a", "s">>, <<8>>, <<8>>, <<2024>>, <<12>>)

L_SinAnio == FilaLongitud(U150101, ATE, AGUA, <<8>>, <<8>>, <<1999>>, <<12>>)

LongitudesCrudas ==
    {[columnas |-> COLUMNAS_OBLIGATORIAS_LONGITUD, filas |-> f] :
        f \in {<<>>, <<L_AguaAte, L_DesagueAte>>, <<L_AguaAte, L_OtraClase>>,
               <<L_AguaLince, L_SinAnio>>, <<L_DesagueAte, L_AguaLince>>}}
    \cup {[columnas |-> COLUMNAS_OBLIGATORIAS_LONGITUD \ {"red_primaria", "clase"},
           filas |-> <<L_AguaAte>>]}

FilaProyecto(ubigeo, distrito, etapa, avance_fisico, fecha_corte) ==
    [gerencia_servicios |-> <<" ">> \o GS, equipo_comercial |-> EC,
     departamento |-> LIMA, provincia |-> LIMA, distrito |-> distrito,
     ubigeo |-> ubigeo, nombre_proyecto |-> <<"R", "e", "d", " ", "(", "1", ")">>,
     etapa |-> etapa, avance_fisico |-> avance_fisico, fecha_inicio |-> <<>>,
     fecha_fin |-> <<>>, fecha_corte |-> fecha_corte, costo_total |-> <<>>,
     contratista_consultor |-> <<"s", "a", " ">>, anio |-> <<>>, mes |-> <<>>]

P_ObraAteYLince ==
    FilaProyecto(U150101, <<"a", "t", "e", " ", "y", " ", "l", "i", "n", "c", "e">>,
                 <<"o", "b", "r", "a">>, <<101>>, <<2024, 12, 15>>)

P_CerradoAte ==
    FilaProyecto(U150101, ATE, <<"c", "e", "r", "r", "a", "d", "o">>, <<>>, <<2024, 12, 1>>)

P_SinClave == FilaProyecto(U1501011, ATE, <<"x">>, <<300>>, <<>>)

ProyectosCrudos ==
    {[columnas |-> COLUMNAS_OBLIGATORIAS_PROYECTO, filas |-> f] :
        f \in {<<>>, <<P_ObraAteYLince, P_CerradoAte>>, <<P_SinClave>>,
               <<P_CerradoAte, P_SinClave>>}}
    \cup {[columnas |-> COLUMNAS_OBLIGATORIAS_PROYECTO \ columnas_faltantes_toleradas,
           filas |-> <<P_ObraAteYLince>>],
          [columnas |-> COLUMNAS_OBLIGATORIAS_PROYECTO
                            \ {"gerencia_servicios", "etapa", "avance_fisico"},
           filas |-> <<P_CerradoAte>>]}

\* a file left at ruta_salida by an earlier run on other sources
ArchivoViejo == [existe |-> TRUE, columnas |-> <<"ubigeo">>, filas |-> <<>>]

-----------------------------------------------------------------------------
(* ejecutar_etl, statement by statement, in two processes on the same files *)

InitEtl ==
    /\ pc = "inicio"
    /\ fuentes \in [conexiones : ConexionesCrudas, longitudes : LongitudesCrudas,
                    proyectos : ProyectosCrudos]
    /\ orden_clases \in OrdenesDeClases
    /\ etl = SinTablas
    /\ excepcion = <<>>
    /\ archivo \in {Ausente, ArchivoViejo}
    /\ archivo_previo = archivo
    /\ corrida = 1
    /\ ReposoUbigeo
    /\ ReposoPesos
    /\ ReposoAnotacion
    /\ ReposoIndicadores
    /\ ReposoTexto
    /\ ReposoApi
    /\ ReposoRecarga
    /\ ReposoDescarga
    /\ ReposoCache

\* a cleaning statement: the table is bound to its local, or the exception of
\* the validation leaves ejecutar_etl
Sentencia(desde, hasta, df_local, df) ==
    /\ pc = desde
    /\ IF df.error # <<>>
       THEN /\ pc' = "fallo"
            /\ excepcion' = df.error
            /\ UNCHANGED etl
       ELSE /\ pc' = hasta
            /\ etl' = [etl EXCEPT ![df_local] = df]
            /\ UNCHANGED excepcion
    /\ UNCHANGED <<fuentes, orden_clases, archivo, archivo_previo, corrida>>
    /\ UNCHANGED <<varsUbigeo, varsPesos, varsAnotacion, varsIndicadores, varsTexto, varsApi,
                 varsRecarga, varsDescarga, varsCache>>

LimpiarConexiones ==
    Sentencia("inicio", "conexiones", "df_conexiones", limpiar_conexiones(fuentes.conexiones))

LimpiarLongitudes ==
    Sentencia("conexiones", "longitudes", "df_longitudes",
              limpiar_longitudes(fuentes.longitudes, orden_clases))

LimpiarProyectos ==
    Sentencia("longitudes", "proyectos", "df_proyectos", limpiar_proyectos(fuentes.proyectos))

EnriquecerMicrozonas ==
    Sentencia("proyectos", "microzonas", "df_microzonas",
              [error |-> <<>>] @@ enriquecer_microzonas(etl.df_conexiones, etl.df_longitudes,
                                                        etl.df_proyectos))

\* the counts of the cleaned connections are an Int64 column
CalcularIndicadores ==
    Sentencia("microzonas", "indicadores", "df_indicadores",
              calcular_indicadores(etl.df_microzonas, "Int64"))

GuardarResultados ==
    /\ pc = "indicadores"
    /\ pc' = "guardado"
    /\ archivo' = guardar_resultados(etl.df_indicadores)
    /\ UNCHANGED <<fuentes, orden_clases, etl, excepcion, archivo_previo, corrida>>
    /\ UNCHANGED <<varsUbigeo, varsPesos, varsAnotacion, varsIndicadores, varsTexto, varsApi,
                 varsRecarga, varsDescarga, varsCache>>

\* the pipeline is run again on the same files, in a new process
NuevoProceso ==
    /\ pc \in {"guardado", "fallo"}
    /\ corrida = 1
    /\ corrida' = 2
    /\ pc' = "inicio"
    /\ orden_clases' \in OrdenesDeClases
    /\ etl' = SinTablas
    /\ excepcion' = <<>>
    /\ archivo_previo' = archivo
    /\ UNCHANGED <<fuentes, archivo>>
    /\ UNCHANGED <<varsUbigeo, varsPesos, varsAnotacion, varsIndicadores, varsTexto, varsApi,
                 varsRecarga, varsDescarga, varsCache>>

NextEtl ==
    \/ LimpiarConexiones
    \/ LimpiarLongitudes
    \/ LimpiarProyectos
    \/ EnriquecerMicrozonas
    \/ CalcularIndicadores
    \/ GuardarResultados
    \/ NuevoProceso

SpecEtl == InitEtl /\ [][NextEtl]_vars

-----------------------------------------------------------------------------
(* calcular_indicadores called on a table of its own                        *)

FilaDirecta(agua, alcantarillado, longitud_agua) ==
    [ubigeo |-> U150101, distrito |-> ATE, gerencia_servicios |-> Upper(GS),
     equipo_comercial |-> Upper(EC), anio |-> <<2024>>, mes |-> <<12>>,
     conexiones_agua |-> agua, conexiones_alcantarillado |-> alcantarillado,
     longitud_total_agua |-> longitud_agua, longitud_total_desague |-> Q(5, 2),
     faltan_datos_proyectos |-> QEntero(0)]

FilasDirectas ==
    {FilaDirecta(agua, alcantarillado, longitud_agua) :
        agua \in {<<>>, <<0>>, <<10>>}, alcantarillado \in {<<4>>, <<12>>},
        longitud_agua \in {NaN, Q(9, 2)}}

TablasDirectas ==
    [columnas : {CLAVE_MICROZONA \o <<"conexiones_agua", "conexiones_alcantarillado",
                                      "longitud_total_agua", "faltan_datos_proyectos">>
                     \o resto : resto \in {<<>>, <<"longitud_total_desague">>}},
     filas : Secuencias(FilasDirectas, MaxFilasTabla),
     dtype : {"Int64", "float64"}]

InitIndicadores ==
    /\ pc = "entrada"
    /\ entrada \in TablasDirectas
    /\ resultado = <<>>
    /\ ReposoUbigeo
    /\ ReposoPesos
    /\ ReposoAnotacion
    /\ ReposoEtl
    /\ ReposoTexto
    /\ ReposoApi
    /\ ReposoRecarga
    /\ ReposoDescarga
    /\ ReposoCache

LlamarCalcularIndicadores ==
    /\ pc = "entrada"
    /\ pc' = "resultado"
    /\ resultado' = calcular_indicadores(entrada, entrada.dtype)
    /\ UNCHANGED <<entrada, varsUbigeo, varsPesos, varsAnotacion, varsEtl, varsTexto, varsApi,
                 varsRecarga, varsDescarga, varsCache>>

NextIndicadores == LlamarCalcularIndicadores

SpecIndicadores == InitIndicadores /\ [][NextIndicadores]_vars

-----------------------------------------------------------------------------
(* Properties of the pipeline                                               *)

Integrado == pc \in {"microzonas", "indicadores", "guardado"}

\* C3: the second process, run on the same three files, leaves at ruta_salida
\* the same file the first one left: same header, same rows, same order.
C3_SalidaIdentica ==
    (corrida = 2 /\ pc = "guardado") =>
        /\ archivo.columnas = archivo_previo.columnas
        /\ archivo.filas = archivo_previo.filas

\* C4: the integrated table has one row per row of the cleaned connections, in
\* the same order, with the same key and the same two counts.
C4_UnaFilaPorConexion ==
    Integrado =>
        /\ Len(etl.df_microzonas.filas) = Len(etl.df_conexiones.filas)
        /\ \A i \in 1..Len(etl.df_conexiones.filas) :
              i <= Len(etl.df_microzonas.filas) =>
                 /\ Clave(etl.df_microzonas.filas[i]) = Clave(etl.df_conexiones.filas[i])
                 /\ etl.df_microzonas.filas[i].conexiones_agua
                        = etl.df_conexiones.filas[i].conexiones_agua
                 /\ etl.df_microzonas.filas[i].conexiones_alcantarillado
                        = etl.df_conexiones.filas[i].conexiones_alcantarillado

\* a connection row whose key has several cleaned projects and a row of lengths
C4_Witness ==
    /\ pc = "microzonas"
    /\ Len(etl.df_conexiones.filas) = 2
    /\ \E i \in 1..Len(etl.df_conexiones.filas) :
          /\ Len(FilasDeClave(etl.df_proyectos.filas,
                              Clave(etl.df_conexiones.filas[i]))) = 2
          /\ Len(FilasDeClave(etl.df_longitudes.filas,
                              Clave(etl.df_conexiones.filas[i]))) = 1

SinPareja(fila) ==
    /\ \A j \in 1..Len(etl.df_longitudes.filas) :
          Clave(etl.df_longitudes.filas[j]) # Clave(fila)
    /\ \A j \in 1..Len(etl.df_proyectos.filas) :
          Clave(etl.df_proyectos.filas[j]) # Clave(fila)

\* C5: a key of the cleaned connections that no row of the lengths table and no
\* row of the projects table has is a row of the integrated table, with 0.0 in
\* both total lengths, 0 active projects and 0.0 of average progress.
C5_SinParejaQuedaEnCero ==
    Integrado =>
        \A i \in 1..Len(etl.df_conexiones.filas) :
            SinPareja(etl.df_conexiones.filas[i]) =>
                \E j \in 1..Len(etl.df_microzonas.filas) :
                    /\ Clave(etl.df_microzonas.filas[j]) = Clave(etl.df_conexiones.filas[i])
                    /\ etl.df_microzonas.filas[j].longitud_total_agua = QEntero(0)
                    /\ etl.df_microzonas.filas[j].longitud_total_desague = QEntero(0)
                    /\ etl.df_microzonas.filas[j].conteo_proyectos_activos = QEntero(0)
                    /\ etl.df_microzonas.filas[j].avance_promedio_proyectos = QEntero(0)

\* a key with no partner while the two other tables have rows of other keys
C5_Witness ==
    /\ pc = "microzonas"
    /\ etl.df_longitudes.filas # <<>>
    /\ etl.df_proyectos.filas # <<>>
    /\ \E i \in 1..Len(etl.df_conexiones.filas) :
          /\ SinPareja(etl.df_conexiones.filas[i])
          /\ ~ClaveTieneNulo(Clave(etl.df_conexiones.filas[i]))

RECURSIVE SumaCruda(_, _, _)
\* sum of the normalized counts of the raw rows of one key
SumaCruda(t, k, columna) ==
    IF t.filas = <<>> THEN 0
    ELSE (IF Clave(NormalizarFilaConexiones(t, Head(t.filas))) = k
          THEN normalizar_valores_enteros(Head(t.filas)[columna], 0) ELSE 0)
         + SumaCruda([t EXCEPT !.filas = Tail(t.filas)], k, columna)

\* C6: the aggregated connections have exactly one row for the key of every raw
\* row, no row of another key, and in each row the two counts are the sums of
\* the normalized counts of the raw rows of that key.
C6_SumaPorClave ==
    etl.df_conexiones.columnas # <<>> =>
        LET cruda == fuentes.conexiones
            resumen == etl.df_conexiones.filas
            clave(i) == Clave(NormalizarFilaConexiones(cruda, cruda.filas[i]))
        IN  /\ \A i \in 1..Len(cruda.filas) :
                  Cardinality({g \in 1..Len(resumen) : Clave(resumen[g]) = clave(i)}) = 1
            /\ \A g \in 1..Len(resumen) :
                  /\ \E i \in 1..Len(cruda.filas) : clave(i) = Clave(resumen[g])
                  /\ resumen[g].conexiones_agua
                         = <<SumaCruda(cruda, Clave(resumen[g]), "conexiones_agua")>>
                  /\ resumen[g].conexiones_alcantarillado
                         = <<SumaCruda(cruda, Clave(resumen[g]),
                                       "conexiones_alcantarillado")>>
                  /\ resumen[g].conexiones_agua[1] >= 0
                  /\ resumen[g].conexiones_alcantarillado[1] >= 0

\* two raw rows of one key (10 and 2.5 of water, 4.5 and -2 of sewer) summed
C6_Witness ==
    /\ pc = "conexiones"
    /\ Len(fuentes.conexiones.filas) = 2
    /\ Len(etl.df_conexiones.filas) = 1
    /\ etl.df_conexiones.filas[1].conexiones_agua = <<12>>
    /\ etl.df_conexiones.filas[1].conexiones_alcantarillado = <<4>>

\* C7: calcular_indicadores raises nothing, and a row whose conexiones_agua is 0
\* or missing has 0.0 in the ratio and in both densities.
C7_NuncaFallaYCeroDaCero ==
    pc = "resultado" =>
        /\ resultado.error = <<>>
        /\ \A i \in 1..Len(resultado.filas) :
              (\/ EsNulo(resultado.filas[i].conexiones_agua)
               \/ resultado.filas[i].conexiones_agua = <<0>>) =>
                 /\ resultado.filas[i].ratio_conexiones_alcantarillado = QEntero(0)
                 /\ resultado.filas[i].densidad_red_agua = QEntero(0)
                 /\ resultado.filas[i].densidad_red_desague = QEntero(0)

\* C7, what holds: when no count of an Int64 column is missing, nothing is
\* raised and the rows with a zero or missing count have 0.0 in the three columns
C7_CeroDaCeroSinNuloEntero ==
    (/\ pc = "resultado"
     /\ \/ entrada.dtype = "float64"
        \/ \A i \in 1..Len(entrada.filas) : ~EsNulo(entrada.filas[i].conexiones_agua)) =>
        /\ resultado.error = <<>>
        /\ Len(resultado.filas) = Len(entrada.filas)
        /\ \A i \in 1..Len(resultado.filas) :
              (\/ EsNulo(resultado.filas[i].conexiones_agua)
               \/ resultado.filas[i].conexiones_agua = <<0>>) =>
                 /\ resultado.filas[i].ratio_conexiones_alcantarillado = QEntero(0)
                 /\ resultado.filas[i].densidad_red_agua = QEntero(0)
                 /\ resultado.filas[i].densidad_red_desague = QEntero(0)

\* the required columns a source lacks; the projects may lack the two tolerated
FaltantesDe(origen) ==
    CASE origen = "conexiones" -> COLUMNAS_OBLIGATORIAS \ fuentes.conexiones.columnas
      [] origen = "longitudes" ->
             COLUMNAS_OBLIGATORIAS_LONGITUD \ fuentes.longitudes.columnas
      [] origen = "proyectos" ->
             (COLUMNAS_OBLIGATORIAS_PROYECTO \ fuentes.proyectos.columnas)
                 \ {"gerencia_servicios", "equipo_comercial"}

OrdenDeLimpieza == <<"conexiones", "longitudes", "proyectos">>

EsListaOrdenadaDe(lista, nombres) ==
    /\ {lista[i] : i \in 1..Len(lista)} = nombres
    /\ \A i, j \in 1..Len(lista) :
          i < j => Posicion(lista[i], OrdenColumnas) < Posicion(lista[j], OrdenColumnas)

\* C10: a run on sources of which one lacks a required column ends in an error
\* that names the first such source and lists its missing columns in sorted
\* order, and leaves the file at ruta_salida as it was; a projects source that
\* lacks only gerencia_servicios or equipo_comercial does not fail the run.
C10_ErrorDeEsquema ==
    /\ pc = "fallo" =>
          \E n \in 1..3 :
             /\ FaltantesDe(OrdenDeLimpieza[n]) # {}
             /\ \A m \in 1..(n - 1) : FaltantesDe(OrdenDeLimpieza[m]) = {}
             /\ excepcion[1] = OrdenDeLimpieza[n]
             /\ EsListaOrdenadaDe(excepcion[2], FaltantesDe(OrdenDeLimpieza[n]))
    /\ (\E n \in 1..3 : FaltantesDe(OrdenDeLimpieza[n]) # {}) =>
          /\ ~Integrado
          /\ archivo = archivo_previo
    /\ (\A n \in 1..3 : FaltantesDe(OrdenDeLimpieza[n]) = {}) => pc # "fallo"

\* the projects lack a tolerated column and two required ones, over an old file
C10_Witness ==
    /\ pc = "fallo"
    /\ excepcion = <<"proyectos", <<"avance_fisico", "etapa">>>>
    /\ "gerencia_servicios" \notin fuentes.proyectos.columnas
    /\ archivo = ArchivoViejo

-----------------------------------------------------------------------------
(* Properties of the project aggregate                                      *)

RECURSIVE SumaDeAvances(_)
SumaDeAvances(filas) ==
    IF filas = <<>> THEN QEntero(0)
    ELSE QSuma(Head(filas).avance_fisico, SumaDeAvances(Tail(filas)))

\* C11: in every row of the integrated table conteo_proyectos_activos is the
\* number of cleaned project rows of the row's key whose stage is not CERRADO,
\* and avance_promedio_proyectos is the mean avance_fisico of all the cleaned
\* project rows of that key (0.0 when the key has none).
C11_ConteoYPromedioDeProyectos ==
    Integrado =>
        \A i \in 1..Len(etl.df_microzonas.filas) :
            LET fila == etl.df_microzonas.filas[i]
                delaClave == SelectSeq(etl.df_proyectos.filas,
                                       LAMBDA f : Clave(f) = Clave(fila))
                abiertos == {j \in 1..Len(delaClave) : delaClave[j].etapa # CERRADO}
            IN  /\ fila.conteo_proyectos_activos = QEntero(Cardinality(abiertos))
                /\ fila.avance_promedio_proyectos
                       = IF delaClave = <<>> THEN QEntero(0)
                         ELSE QDiv(SumaDeAvances(delaClave), QEntero(Len(delaClave)))

\* a key with one project in OBRA (50.5 of progress) and one CERRADO (0.0)
C11_Witness ==
    /\ pc = "microzonas"
    /\ \E i \in 1..Len(etl.df_microzonas.filas) :
          /\ etl.df_microzonas.filas[i].conteo_proyectos_activos = QEntero(1)
          /\ etl.df_microzonas.filas[i].avance_promedio_proyectos = Q(101, 4)
          /\ Len(FilasDeClave(etl.df_proyectos.filas,
                              Clave(etl.df_microzonas.filas[i]))) = 2

-----------------------------------------------------------------------------
(* Properties of the lengths summary                                        *)

RECURSIVE LongitudCruda(_, _, _)
\* sum, over the raw rows of one key and one class, of the two lengths of the
\* row, each one taken as 0 when it is missing or negative
LongitudCruda(filas, k, clase) ==
    IF filas = <<>> THEN QEntero(0)
    ELSE LET f == Head(filas)
             NoNegativa(v) == IF v = <<>> THEN QEntero(0)
                              ELSE IF v[1] < 0 THEN QEntero(0) ELSE Q(v[1], 2)
         IN  QSuma(IF /\ Clave(NormalizarFilaLongitudes(f)) = k
                      /\ Upper(Strip(FillnaTexto(f.clase))) = clase
                   THEN QSuma(NoNegativa(f.red_primaria), NoNegativa(f.red_secundaria))
                   ELSE QEntero(0),
                   LongitudCruda(Tail(filas), k, clase))

-----------------------------------------------------------------------------
(* app/: the query service over the annotated dataset                       *)

\* rows of the short datasets of the service, and of its one long dataset
MaxFilasDataset == 2

FilasDatasetLargo == 52

\* str.lower()
Lower(s) ==
    [i \in 1..Len(s) |->
        IF \E j \in 1..Len(Mayusculas) : Mayusculas[j] = s[i]
        THEN Minusculas[Posicion(s[i], Mayusculas)] ELSE s[i]]

\* _construir_microzona_respuesta(fila): the three annotation columns move
\* under "indicadores", an empty category becomes SIN_DATOS
construir_microzona_respuesta(fila) ==
    [datos_base |-> fila.fila,
     indicadores |->
         [indice_critico |-> fila.indice_critico,
          categoria_microzona |->
              IF fila.categoria_microzona = "" THEN "SIN_DATOS"
              ELSE fila.categoria_microzona,
          advertencias_datos |-> fila.advertencias_datos],
     metadatos_calidad |-> [total_advertencias |-> Len(fila.advertencias_datos)]]

\* _construir_mensajes_calidad(tabla): the codes of the messages
construir_mensajes_calidad(tabla) ==
    LET Todas(columna) ==
            \A i \in 1..Len(tabla) : NuloONoPositivo(tabla[i].fila[columna])
        ratio(i) == tabla[i].fila.ratio_conexiones_alcantarillado
    IN  IF tabla = <<>> THEN <<"SIN_RESULTADOS">>
        ELSE SiAdvierte(Todas("longitud_total_agua"), "LONGITUD_AGUA_CERO")
             \o SiAdvierte(Todas("longitud_total_desague"), "LONGITUD_DESAGUE_CERO")
             \o SiAdvierte(Todas("conteo_proyectos_activos"), "SIN_PROYECTOS_ACTIVOS")
             \o SiAdvierte(\E i \in 1..Len(tabla) :
                               ~EsNulo(ratio(i)) /\ QMenor(QEntero(1), ratio(i)),
                           "RATIO_SUPERIOR_UNO")

\* mutant: the filter on the maximum of connections is not applied
Mut_FiltrarTablaSinMaximo(tabla, filtros) ==
    LET agua(fila) == IF EsNulo(fila.fila.conexiones_agua) THEN 0
                      ELSE fila.fila.conexiones_agua[1]
        ratio(fila) == IF EsNulo(fila.fila.ratio_conexiones_alcantarillado)
                       THEN QEntero(0)
                       ELSE fila.fila.ratio_conexiones_alcantarillado
        PorGerencia(fila) ==
            Lower(fila.fila.gerencia_servicios) = Lower(Strip(filtros.gerencia))
        PorMinimo(fila) == agua(fila) >= filtros.conexiones_minimas[1]
        PorRatio(fila) == QMenorIgual(ratio(fila), filtros.ratio_maximo)
        t1 == IF ~IsNA(filtros.gerencia) /\ filtros.gerencia # <<>>
              THEN SelectSeq(tabla, PorGerencia) ELSE tabla
        t2 == IF filtros.conexiones_minimas # <<>>
              THEN SelectSeq(t1, PorMinimo) ELSE t1
        t3 == t2
    IN  IF filtros.ratio_maximo # <<>> THEN SelectSeq(t3, PorRatio) ELSE t3

\* the four filters of filtrar_microzonas, applied one after the other
FiltrarTabla(tabla, filtros) ==
    LET agua(fila) == IF EsNulo(fila.fila.conexiones_agua) THEN 0
                      ELSE fila.fila.conexiones_agua[1]
        ratio(fila) == IF EsNulo(fila.fila.ratio_conexiones_alcantarillado)
                       THEN QEntero(0)
                       ELSE fila.fila.ratio_conexiones_alcantarillado
        PorGerencia(fila) ==
            Lower(fila.fila.gerencia_servicios) = Lower(Strip(filtros.gerencia))
        PorMinimo(fila) == agua(fila) >= filtros.conexiones_minimas[1]
        PorMaximo(fila) == agua(fila) <= filtros.conexiones_maximas[1]
        PorRatio(fila) == QMenorIgual(ratio(fila), filtros.ratio_maximo)
        t1 == IF ~IsNA(filtros.gerencia) /\ filtros.gerencia # <<>>
              THEN SelectSeq(tabla, PorGerencia) ELSE tabla
        t2 == IF filtros.conexiones_minimas # <<>>
              THEN SelectSeq(t1, PorMinimo) ELSE t1
        t3 == IF filtros.conexiones_maximas # <<>>
              THEN SelectSeq(t2, PorMaximo) ELSE t2
    IN  IF filtros.ratio_maximo # <<>> THEN SelectSeq(t3, PorRatio) ELSE t3

\* mutant: the limit of the request is not clamped to limite_maximo
Mut_FiltrarMicrozonasSinTope(tabla, filtros, paginacion, limite_maximo) ==
    LET tabla_filtrada == FiltrarTabla(tabla, filtros)
        limite_normalizado == paginacion.limite
        inicio == paginacion.desplazamiento
        fin == inicio + limite_normalizado
        \* tabla_filtrada.iloc[inicio:fin]
        segmento ==
            IF inicio >= Len(tabla_filtrada) THEN <<>>
            ELSE SubSeq(tabla_filtrada, inicio + 1,
                        IF fin < Len(tabla_filtrada) THEN fin ELSE Len(tabla_filtrada))
    IN  [microzonas_respuesta |->
             [i \in 1..Len(segmento) |-> construir_microzona_respuesta(segmento[i])],
         total_filtrado |-> Len(tabla_filtrada),
         mensajes |-> construir_mensajes_calidad(tabla_filtrada)]

\* filtrar_microzonas(microzonas, filtros, paginacion, limite_maximo)
filtrar_microzonas(tabla, filtros, paginacion, limite_maximo) ==
    LET tabla_filtrada == FiltrarTabla(tabla, filtros)
        limite_normalizado ==
            IF paginacion.limite < limite_maximo THEN paginacion.limite
            ELSE limite_maximo
        inicio == paginacion.desplazamiento
        fin == inicio + limite_normalizado
        \* tabla_filtrada.iloc[inicio:fin]
        segmento ==
            IF inicio >= Len(tabla_filtrada) THEN <<>>
            ELSE SubSeq(tabla_filtrada, inicio + 1,
                        IF fin < Len(tabla_filtrada) THEN fin ELSE Len(tabla_filtrada))
    IN  [microzonas_respuesta |->
             [i \in 1..Len(segmento) |-> construir_microzona_respuesta(segmento[i])],
         total_filtrado |-> Len(tabla_filtrada),
         mensajes |-> construir_mensajes_calidad(tabla_filtrada)]

\* the body of a response that carries no error
SinDetalle == [codigo |-> "", detalle |-> "", explicacion_simple |-> ""]

\* mutant: a lookup without a match answers with an empty success
Mut_ObtenerMicrozonaVacia(tabla, ubigeo) ==
    LET Coincide(fila) == fila.fila.ubigeo = ubigeo
        consulta == SelectSeq(tabla, Coincide)
    IN  [estado |-> 200,
         microzonas |-> IF consulta = <<>> THEN <<>>
                        ELSE <<construir_microzona_respuesta(consulta[1])>>,
         detalle |-> SinDetalle]

\* obtener_microzona(microzonas, ubigeo): the outcome of the lookup; the
\* texts are written without their accents
obtener_microzona(tabla, ubigeo) ==
    LET Coincide(fila) == fila.fila.ubigeo = ubigeo
        consulta == SelectSeq(tabla, Coincide)
    IN  IF consulta = <<>>
        THEN [estado |-> 404, microzonas |-> <<>>,
              detalle |-> [codigo |-> "MICROZONA_NO_ENCONTRADA",
                           detalle |-> "No se hallo la microzona solicitada.",
                           explicacion_simple |->
                               "Revisa el codigo UBIGEO proporcionado."]]
        ELSE [estado |-> 200,
              microzonas |-> <<construir_microzona_respuesta(consulta[1])>>,
              detalle |-> SinDetalle]

RECURSIVE OrdenarPorIndice(_)
\* sort_values(by="indice_critico", ascending=False); rows with equal index
\* keep the order of the table
OrdenarPorIndice(filas) ==
    IF filas = <<>> THEN <<>>
    ELSE LET resto == OrdenarPorIndice(Tail(filas))
             x == Head(filas)
             Antes(fila) == QMenor(x.indice_critico, fila.indice_critico)
             DespuesOIgual(fila) == ~QMenor(x.indice_critico, fila.indice_critico)
         IN  SelectSeq(resto, Antes) \o <<x>> \o SelectSeq(resto, DespuesOIgual)

\* mutant: the table is sorted by index but not restricted to CRITICA
Mut_SoloCriticasSinRestringir(tabla) == OrdenarPorIndice(tabla)

\* the table listar_microzonas_criticas hands to filtrar_microzonas
SoloCriticas(tabla) ==
    LET EsCritica(fila) == fila.categoria_microzona = "CRITICA"
    IN  OrdenarPorIndice(SelectSeq(tabla, EsCritica))

\* obtener_estadisticas(microzonas, percentiles), with
\* _detectar_limitaciones_globales; the texts are written without their accents
obtener_estadisticas(tabla, percentiles_copia) ==
    LET NoPositivas(columna) ==
            {i \in 1..Len(tabla) : NuloONoPositivo(tabla[i].fila[columna])}
        Todas(columna) == Cardinality(NoPositivas(columna)) = Len(tabla)
    IN  [total_microzonas |-> Len(tabla),
         percentiles_conexiones |->
             [p10_conexiones |-> percentiles_copia.p10_conexiones,
              p25_conexiones |-> percentiles_copia.p25_conexiones,
              mediana_conexiones |-> percentiles_copia.mediana_conexiones,
              p75_conexiones |-> percentiles_copia.p75_conexiones],
         mediana_ratio |-> percentiles_copia.mediana_ratio,
         maximo_ratio |-> percentiles_copia.maximo_ratio,
         advertencias_globales |->
             IF tabla = <<>> THEN <<"El conjunto de microzonas esta vacio.">>
             ELSE SiAdvierte(Todas("longitud_total_agua"),
                     "Todas las microzonas reportan longitud de red de agua igual a cero.")
                  \o SiAdvierte(Todas("longitud_total_desague"),
                     "Todas las microzonas reportan longitud de red de desague igual a cero.")
                  \o SiAdvierte(Cardinality(NoPositivas("conteo_proyectos_activos"))
                                    >= Len(tabla) - 1,
                     "Solo se registran proyectos activos en una microzona o ninguna.")]

\* The frames a handler touches: en_cache is the frame held by the cache of
\* _cargar_dataset_enriquecido, microzonas the one bound to the local name.
\* obtener_dataset_microzonas(): the local name gets microzonas.copy()
obtener_dataset_microzonas(marcos) == [marcos EXCEPT !.microzonas = marcos.en_cache]

\* mutant: the rows are sorted in place in the frame of the cache, and the
\* critical ones selected afterwards
Mut_CriticasOrdenandoElCache(marcos) ==
    [en_cache |-> OrdenarPorIndice(marcos.en_cache),
     microzonas |-> SoloCriticas(marcos.microzonas)]

\* listar_microzonas_criticas: the local name is rebound to the copy of the
\* critical rows, and that copy is sorted in place
CriticasEnSitio(marcos) ==
    [marcos EXCEPT !.microzonas = SoloCriticas(marcos.microzonas)]

-----------------------------------------------------------------------------
(* Specification of the service: the dataset is loaded and annotated once,  *)
(* then requests are served from copies of it.                              *)

FilaServicio(ubigeo, gerencia, agua, ratio, longitud_agua, longitud_desague, proyectos) ==
    [ubigeo |-> ubigeo, gerencia_servicios |-> gerencia]
    @@ FilaTabla(agua, ratio, longitud_agua, longitud_desague, proyectos)

U150103 == <<"1", "5", "0", "1", "0", "3">>

S_Mil == FilaServicio(U150101, Upper(GS), <<1000>>, Q(6, 10), <<0>>, <<0>>, <<0>>)

S_Trescientos == FilaServicio(U150103, Upper(EC), <<300>>, Q(12, 10), <<5>>, <<0>>, <<2>>)

S_VeinteMil == FilaServicio(U150103, Upper(GS), <<20000>>, Q(1, 1), <<7>>, <<3>>, <<1>>)

S_SinDatos == FilaServicio(<<>>, <<>>, NaN, NaN, NaN, NaN, NaN)

S_Cero == FilaServicio(U150101, <<"G", "s">>, <<0>>, Q(0, 1), <<4>>, <<4>>, <<0>>)

\* rows cargar_microzonas may return: text is stripped and never missing,
\* numbers are whatever the file holds or missing
FilasServicio == {S_Mil, S_Trescientos, S_VeinteMil, S_SinDatos, S_Cero}

ColumnasServicio == ColumnasAnotadas \cup {"ubigeo", "gerencia_servicios"}

\* a long table: S_Mil and S_Trescientos in turn
TablaLarga == [i \in 1..FilasDatasetLargo |-> IF i % 2 = 1 THEN S_Mil ELSE S_Trescientos]

\* tables cargar_microzonas may return
TablasCargadas ==
    {[columnas |-> ColumnasServicio, filas |-> filas] :
        filas \in Secuencias(FilasServicio, MaxFilasDataset) \cup {TablaLarga}}

\* the body of _cargar_dataset_enriquecido() on the table cargar_microzonas
\* returned: the annotated rows and the percentiles
cargar_dataset_enriquecido(microzonas_base) ==
    [microzonas_enriquecidas |->
         anotar_indicadores(microzonas_base, CriteriosCriticidad(ArgumentosPorDefecto)),
     percentiles |-> calcular_percentiles(microzonas_base)]

\* ConfiguracionServicio.maximo_limite, between 50 and 500
Configuraciones == {[maximo_limite |-> 50], [maximo_limite |-> 200]}

\* FiltroMicrozona as obtener_parametros_filtro builds it; NA stands for None
\* of the text filter, <<>> for None of a number
Filtros ==
    [gerencia : {NA, <<>>, <<" ", "g", "s">>, <<"E", "C">>},
     conexiones_minimas : {<<>>, <<0>>, <<500>>},
     conexiones_maximas : {<<>>, <<500>>},
     ratio_maximo : {<<>>, QEntero(1)}]

\* Paginacion: 1 <= limit <= 200, offset >= 0
Paginaciones == [limite : {1, 2, 51}, desplazamiento : {0, 1, 2, 51}]

SinFiltros ==
    [gerencia |-> NA, conexiones_minimas |-> <<>>, conexiones_maximas |-> <<>>,
     ratio_maximo |-> <<>>]

UbigeosPedidos == {U150101, U150103, U1501011}

SinResumen ==
    [total_microzonas |-> 0,
     percentiles_conexiones |->
         [p10_conexiones |-> NaN, p25_conexiones |-> NaN,
          mediana_conexiones |-> NaN, p75_conexiones |-> NaN],
     mediana_ratio |-> NaN, maximo_ratio |-> NaN, advertencias_globales |-> <<>>]

SinRespuesta ==
    [ruta |-> "", filtros |-> SinFiltros,
     paginacion |-> [limite |-> 50, desplazamiento |-> 0], ubigeo |-> <<>>,
     estado |-> 0, total |-> 0, microzonas |-> <<>>, mensajes |-> <<>>,
     detalle |-> SinDetalle, resumen |-> SinResumen]

InitApi ==
    /\ pc = "servicio"
    /\ \E microzonas_base \in TablasCargadas :
           /\ dataset = cargar_dataset_enriquecido(microzonas_base).microzonas_enriquecidas
           /\ percentiles = cargar_dataset_enriquecido(microzonas_base).percentiles
    /\ configuracion \in Configuraciones
    /\ respuesta = SinRespuesta
    /\ ReposoUbigeo
    /\ ReposoPesos
    /\ ReposoAnotacion
    /\ ReposoEtl
    /\ ReposoIndicadores
    /\ ReposoTexto
    /\ ReposoRecarga
    /\ ReposoDescarga
    /\ ReposoCache

\* the frames of a handler that has called obtener_dataset_microzonas()
MarcosDeLaPeticion ==
    obtener_dataset_microzonas([en_cache |-> dataset, microzonas |-> <<>>])

\* ListadoMicrozonas(total, microzonas, paginacion, filtros, mensajes)
ListadoMicrozonas(ruta, tabla, filtros, paginacion) ==
    LET r == filtrar_microzonas(tabla, filtros, paginacion, configuracion.maximo_limite)
    IN  [ruta |-> ruta, filtros |-> filtros, paginacion |-> paginacion,
         ubigeo |-> <<>>, estado |-> 200, total |-> r.total_filtrado,
         microzonas |-> r.microzonas_respuesta, mensajes |-> r.mensajes,
         detalle |-> SinDetalle, resumen |-> SinResumen]

\* GET /microzonas
ListarMicrozonas ==
    /\ pc = "servicio"
    /\ \E filtros \in Filtros, paginacion \in Paginaciones :
           respuesta' = ListadoMicrozonas("/microzonas", MarcosDeLaPeticion.microzonas,
                                          filtros, paginacion)
    /\ pc' = "respondido"
    /\ dataset' = MarcosDeLaPeticion.en_cache
    /\ UNCHANGED <<percentiles, configuracion>>
    /\ UNCHANGED <<varsUbigeo, varsPesos, varsAnotacion, varsEtl, varsIndicadores,
                 varsTexto, varsRecarga, varsDescarga, varsCache>>

\* GET /microzonas/criticas; the annotated dataset always has the column
\* categoria_microzona
ListarMicrozonasCriticas ==
    /\ pc = "servicio"
    /\ \E filtros \in Filtros, paginacion \in Paginaciones :
           respuesta' = ListadoMicrozonas("/microzonas/criticas",
                                          CriticasEnSitio(MarcosDeLaPeticion).microzonas,
                                          filtros, paginacion)
    /\ pc' = "respondido"
    /\ dataset' = CriticasEnSitio(MarcosDeLaPeticion).en_cache
    /\ UNCHANGED <<percentiles, configuracion>>
    /\ UNCHANGED <<varsUbigeo, varsPesos, varsAnotacion, varsEtl, varsIndicadores,
                 varsTexto, varsRecarga, varsDescarga, varsCache>>

\* GET /microzonas/resumen; obtener_percentiles_microzonas() hands a copy of
\* the cached dict, dict(percentiles)
ObtenerResumenMicrozonas ==
    /\ pc = "servicio"
    /\ respuesta' =
           [SinRespuesta EXCEPT
               !.ruta = "/microzonas/resumen", !.estado = 200,
               !.resumen = obtener_estadisticas(MarcosDeLaPeticion.microzonas, percentiles)]
    /\ pc' = "respondido"
    /\ dataset' = MarcosDeLaPeticion.en_cache
    /\ UNCHANGED <<percentiles, configuracion>>
    /\ UNCHANGED <<varsUbigeo, varsPesos, varsAnotacion, varsEtl, varsIndicadores,
                 varsTexto, varsRecarga, varsDescarga, varsCache>>

\* GET /microzonas/{ubigeo}
DetalleMicrozona ==
    /\ pc = "servicio"
    /\ \E ubigeo \in UbigeosPedidos :
           LET r == obtener_microzona(MarcosDeLaPeticion.microzonas, ubigeo)
           IN  respuesta' =
                   [ruta |-> "/microzonas/{ubigeo}", filtros |-> SinFiltros,
                    paginacion |-> [limite |-> 50, desplazamiento |-> 0],
                    ubigeo |-> ubigeo, estado |-> r.estado, total |-> 0,
                    microzonas |-> r.microzonas, mensajes |-> <<>>,
                    detalle |-> r.detalle, resumen |-> SinResumen]
    /\ pc' = "respondido"
    /\ dataset' = MarcosDeLaPeticion.en_cache
    /\ UNCHANGED <<percentiles, configuracion>>
    /\ UNCHANGED <<varsUbigeo, varsPesos, varsAnotacion, varsEtl, varsIndicadores,
                 varsTexto, varsRecarga, varsDescarga, varsCache>>

\* the response has been sent; the process waits for the next request
EsperarPeticion ==
    /\ pc = "respondido"
    /\ pc' = "servicio"
    /\ respuesta' = SinRespuesta
    /\ UNCHANGED <<dataset, percentiles, configuracion>>
    /\ UNCHANGED <<varsUbigeo, varsPesos, varsAnotacion, varsEtl, varsIndicadores,
                 varsTexto, varsRecarga, varsDescarga, varsCache>>

NextApi ==
    \/ ListarMicrozonas
    \/ ListarMicrozonasCriticas
    \/ ObtenerResumenMicrozonas
    \/ DetalleMicrozona
    \/ EsperarPeticion

SpecApi == InitApi /\ [][NextApi]_vars

-----------------------------------------------------------------------------
(* Properties of the query service                                          *)

\* the response is a listing served by `ruta`
EsListado(ruta) == pc = "respondido" /\ respuesta.ruta = ruta

\* the rows of `filas` a page of the request holds, given the limit of the
\* configuration
PaginaDe(filas, paginacion, maximo) ==
    LET tope == IF paginacion.limite < maximo THEN paginacion.limite ELSE maximo
    IN  [i \in 1..(IF Len(filas) <= paginacion.desplazamiento THEN 0
                   ELSE IF Len(filas) - paginacion.desplazamiento < tope
                        THEN Len(filas) - paginacion.desplazamiento
                        ELSE tope) |->
            filas[paginacion.desplazamiento + i]]

\* the response rows are the given rows of the dataset, in that order
SonLasFilas(respondidas, filas) ==
    /\ Len(respondidas) = Len(filas)
    /\ \A i \in 1..Len(filas) :
           /\ respondidas[i].datos_base = filas[i].fila
           /\ respondidas[i].indicadores.indice_critico = filas[i].indice_critico
           /\ respondidas[i].indicadores.categoria_microzona = filas[i].categoria_microzona

\* a row satisfies the filters as they are written in the request: a filter
\* that is not None compares the value of the row
CumpleLiteral(fila, f) ==
    /\ IsNA(f.gerencia) \/ Lower(fila.fila.gerencia_servicios) = Lower(f.gerencia)
    /\ f.conexiones_minimas = <<>>
       \/ (~EsNulo(fila.fila.conexiones_agua)
           /\ fila.fila.conexiones_agua[1] >= f.conexiones_minimas[1])
    /\ f.conexiones_maximas = <<>>
       \/ (~EsNulo(fila.fila.conexiones_agua)
           /\ fila.fila.conexiones_agua[1] <= f.conexiones_maximas[1])
    /\ f.ratio_maximo = <<>>
       \/ (~EsNulo(fila.fila.ratio_conexiones_alcantarillado)
           /\ QMenorIgual(fila.fila.ratio_conexiones_alcantarillado, f.ratio_maximo))

\* a row satisfies the filters as the service reads them: the management
\* filter is stripped and ignored when empty, a missing number counts as 0
CumpleLeido(fila, f) ==
    LET agua == IF EsNulo(fila.fila.conexiones_agua) THEN <<0>>
                ELSE fila.fila.conexiones_agua
        ratio == IF EsNulo(fila.fila.ratio_conexiones_alcantarillado) THEN QEntero(0)
                 ELSE fila.fila.ratio_conexiones_alcantarillado
    IN  /\ IsNA(f.gerencia) \/ f.gerencia = <<>>
           \/ Lower(fila.fila.gerencia_servicios) = Lower(Strip(f.gerencia))
        /\ f.conexiones_minimas = <<>> \/ agua[1] >= f.conexiones_minimas[1]
        /\ f.conexiones_maximas = <<>> \/ agua[1] <= f.conexiones_maximas[1]
        /\ f.ratio_maximo = <<>> \/ QMenorIgual(ratio, f.ratio_maximo)

\* C13 as stated: the listing returns exactly the rows of the table whose
\* values satisfy every supplied filter (management equal ignoring case,
\* conexiones_agua >= min, <= max, ratio <= ratio_max), in table order, and
\* total is the number of such rows whatever limit and offset are.
C13_FilasQueCumplenLiteral ==
    EsListado("/microzonas") =>
        LET Cumple(fila) == CumpleLiteral(fila, respuesta.filtros)
            esperadas == SelectSeq(dataset, Cumple)
        IN  /\ respuesta.total = Len(esperadas)
            /\ SonLasFilas(respuesta.microzonas,
                           PaginaDe(esperadas, respuesta.paginacion,
                                    configuracion.maximo_limite))

\* C13 (amended): the listing returns exactly the rows that satisfy every
\* supplied filter, in table order, and total is their number whatever limit
\* and offset are, where the management filter is compared after stripping
\* it and is ignored when empty, and a missing conexiones_agua or ratio
\* counts as 0.
C13_FilasQueCumplen ==
    EsListado("/microzonas") =>
        LET Cumple(fila) == CumpleLeido(fila, respuesta.filtros)
            esperadas == SelectSeq(dataset, Cumple)
        IN  /\ respuesta.total = Len(esperadas)
            /\ SonLasFilas(respuesta.microzonas,
                           PaginaDe(esperadas, respuesta.paginacion,
                                    configuracion.maximo_limite))

\* witness of C13: min_connections = 500 on rows with connections
\* {1000, 300} returns only the 1000 row, with total = 1
C13_Witness ==
    /\ EsListado("/microzonas")
    /\ respuesta.filtros = [SinFiltros EXCEPT !.conexiones_minimas = <<500>>]
    /\ Len(dataset) = 2
    /\ dataset[1].fila.conexiones_agua = <<1000>>
    /\ dataset[2].fila.conexiones_agua = <<300>>
    /\ respuesta.total = 1
    /\ Len(respuesta.microzonas) = 1
    /\ respuesta.microzonas[1].datos_base.conexiones_agua = <<1000>>

\* the rows of the dataset that pass the filters of the response
FilasFiltradas ==
    LET Cumple(fila) == CumpleLeido(fila, respuesta.filtros)
    IN  SelectSeq(dataset, Cumple)

\* the quality messages the whole of `filas` calls for
MensajesSobre(filas, mensajes) ==
    LET Tiene(codigo) == \E i \in 1..Len(mensajes) : mensajes[i] = codigo
        Vacia(columna) ==
            \A i \in 1..Len(filas) :
                EsNulo(filas[i].fila[columna]) \/ filas[i].fila[columna][1] <= 0
    IN  /\ Tiene("SIN_RESULTADOS") <=> filas = <<>>
        /\ Tiene("LONGITUD_AGUA_CERO") <=> (filas # <<>> /\ Vacia("longitud_total_agua"))
        /\ Tiene("LONGITUD_DESAGUE_CERO")
               <=> (filas # <<>> /\ Vacia("longitud_total_desague"))
        /\ Tiene("SIN_PROYECTOS_ACTIVOS")
               <=> (filas # <<>> /\ Vacia("conteo_proyectos_activos"))
        /\ Tiene("RATIO_SUPERIOR_UNO")
               <=> \E i \in 1..Len(filas) :
                       /\ ~EsNulo(filas[i].fila.ratio_conexiones_alcantarillado)
                       /\ QMenor(QEntero(1), filas[i].fila.ratio_conexiones_alcantarillado)

\* C14: the page holds the filtered rows at the positions
\* [offset, offset + min(limit, limite_maximo)): it is never longer than
\* min(limit, limite_maximo) and is empty when offset >= total, while total
\* and the quality messages are those of the whole filtered set.
C14_PaginaDelFiltrado ==
    EsListado("/microzonas") =>
        LET limite == respuesta.paginacion.limite
            inicio == respuesta.paginacion.desplazamiento
            maximo == configuracion.maximo_limite
            tope == IF limite < maximo THEN limite ELSE maximo
            pagina == respuesta.microzonas
        IN  /\ Len(pagina) <= tope
            /\ inicio >= respuesta.total => pagina = <<>>
            /\ \A i \in 1..Len(FilasFiltradas) :
                   (inicio < i /\ i <= inicio + tope)
                       => /\ i - inicio <= Len(pagina)
                          /\ pagina[i - inicio].datos_base = FilasFiltradas[i].fila
            /\ \A k \in 1..Len(pagina) : inicio + k <= Len(FilasFiltradas)
            /\ respuesta.total = Len(FilasFiltradas)
            /\ MensajesSobre(FilasFiltradas, respuesta.mensajes)

\* witness of C14: a limit of 51 against limite_maximo = 50 on 52 filtered
\* rows gives a page of 50 rows and total = 52
C14_Witness ==
    /\ EsListado("/microzonas")
    /\ respuesta.paginacion.limite > configuracion.maximo_limite
    /\ respuesta.paginacion.desplazamiento = 1
    /\ respuesta.total = FilasDatasetLargo
    /\ Len(respuesta.microzonas) = configuracion.maximo_limite
    /\ respuesta.microzonas[1].datos_base = dataset[2].fila

\* the response is that of a lookup by ubigeo
EsDetalle == pc = "respondido" /\ respuesta.ruta = "/microzonas/{ubigeo}"

\* no row of the dataset has the ubigeo of the request
SinCoincidencia == \A i \in 1..Len(dataset) : dataset[i].fila.ubigeo # respuesta.ubigeo

\* C15: a lookup of a ubigeo that matches no row of the dataset ends in the
\* not-found outcome (404 with the code MICROZONA_NO_ENCONTRADA, a technical
\* text and a plain-language text), never in a crash or a successful empty
\* result, and no step of the service changes the dataset.
C15_NoEncontrada ==
    /\ [](EsDetalle /\ SinCoincidencia
            => /\ respuesta.estado = 404
               /\ respuesta.microzonas = <<>>
               /\ respuesta.detalle.codigo = "MICROZONA_NO_ENCONTRADA"
               /\ respuesta.detalle.detalle # ""
               /\ respuesta.detalle.explicacion_simple # "")
    /\ [][dataset' = dataset]_vars

\* witness of C15: a seven-digit ubigeo is looked up in a dataset of two rows
\* and the answer is the 404
C15_Witness ==
    /\ EsDetalle
    /\ Len(dataset) = 2
    /\ respuesta.ubigeo = U1501011
    /\ respuesta.estado = 404
    /\ respuesta.detalle.codigo = "MICROZONA_NO_ENCONTRADA"

\* C16: the /microzonas/criticas listing returns only rows whose
\* categoria_microzona is CRITICA, whatever the filters and the pagination,
\* and its total counts exactly the CRITICA rows that satisfy the filters.
C16_SoloCriticas ==
    EsListado("/microzonas/criticas") =>
        /\ \A k \in 1..Len(respuesta.microzonas) :
               /\ respuesta.microzonas[k].indicadores.categoria_microzona = "CRITICA"
               /\ \E i \in 1..Len(dataset) :
                      /\ dataset[i].categoria_microzona = "CRITICA"
                      /\ dataset[i].fila = respuesta.microzonas[k].datos_base
        /\ respuesta.total =
               Cardinality({i \in 1..Len(dataset) :
                               /\ dataset[i].categoria_microzona = "CRITICA"
                               /\ CumpleLeido(dataset[i], respuesta.filtros)})

\* witness of C16: of two rows that pass the filters only the CRITICA one is
\* listed and counted
C16_Witness ==
    /\ EsListado("/microzonas/criticas")
    /\ Len(dataset) = 2
    /\ dataset[1].categoria_microzona = "VIGILANCIA"
    /\ dataset[2].categoria_microzona = "CRITICA"
    /\ \A i \in 1..2 : CumpleLeido(dataset[i], respuesta.filtros)
    /\ respuesta.filtros.conexiones_maximas # <<>>
    /\ respuesta.total = 1
    /\ Len(respuesta.microzonas) = 1
    /\ respuesta.microzonas[1].datos_base = dataset[2].fila

-----------------------------------------------------------------------------
(* Properties of the reference of the coverage sub-score                    *)

\* the index of a row when the coverage sub-score divides by `denominador`
IndiceConDenominador(c, fila, denominador) ==
    LET ratio == fila.ratio_conexiones_alcantarillado
        ratio_normalizado == IF EsNulo(ratio) THEN QEntero(1) ELSE QMin(ratio, QEntero(1))
        agua == fila.conexiones_agua
        cobertura == IF EsNulo(agua) THEN QEntero(1)
                     ELSE QMin(QDiv(QEntero(agua[1]), denominador), QEntero(1))
    IN  Round3(QSuma(QProd(c.peso_ratio, QResta(QEntero(1), ratio_normalizado)),
                     QProd(c.peso_conexiones, QResta(QEntero(1), cobertura))))

\* the 75th percentile of conexiones_agua of the table, 1 when it is
\* undefined or not positive
P75OUno ==
    LET p75 == P75Conexiones(microzonas)
    IN  IF ~EsNulo(p75) /\ p75[1] > 0 THEN p75 ELSE QEntero(1)

\* C17: when the criteria are created with a reference <= 0, the coverage
\* sub-score of every annotated row divides conexiones_agua by the 75th
\* percentile of conexiones_agua of the annotated table, and by 1.0 only when
\* that percentile is not positive or undefined.
C17_ReferenciaNoPositivaUsaP75 ==
    (/\ pc = "anotado"
     /\ ~EsNulo(argumentos.percentil_conexiones_critico)
     /\ argumentos.percentil_conexiones_critico[1] <= 0
     /\ {"ratio_conexiones_alcantarillado", "conexiones_agua"} \subseteq microzonas.columnas)
        => \A i \in 1..Len(enriquecido) :
               enriquecido[i].indice_critico =
                   IndiceConDenominador(criterios, microzonas.filas[i], P75OUno)

-----------------------------------------------------------------------------
(* Properties of a ubigeo without digits                                    *)

\* the raw cell is missing, empty or holds no digit
UbigeoSinDigitos == IsNA(ubigeoCrudo) \/ SoloDigitos(ubigeoCrudo) = <<>>

\* C18: a ubigeo that is missing, empty or without any digit is normalized
\* to missing by every cleaner; none of them turns it into the code of six
\* padding zeros.
C18_SinDigitosQuedaNulo ==
    (pc = "saneado" /\ UbigeoSinDigitos)
        => \A limpiador \in DOMAIN ubigeoSaneado :
               /\ IsNA(ubigeoSaneado[limpiador])
               /\ ubigeoSaneado[limpiador] # Ceros(6)

-----------------------------------------------------------------------------
(* Specification of the text normalizers: one raw cell of a key column is   *)
(* normalized by each of the three cleaners.                                *)

MaxTextoLen == 4

\* a lower-case letter, an upper-case letter and a blank
AlfabetoTexto == {"a", "B", " "}

TextosCrudos == Cadenas(AlfabetoTexto, MaxTextoLen) \cup {NA}

ColumnasDeTexto == {"gerencia_servicios", "equipo_comercial", "distrito"}

InitTexto ==
    /\ pc = "crudo"
    /\ textoCrudo \in TextosCrudos
    /\ textoNormalizado = <<>>
    /\ ReposoUbigeo
    /\ ReposoPesos
    /\ ReposoAnotacion
    /\ ReposoEtl
    /\ ReposoIndicadores
    /\ ReposoApi
    /\ ReposoRecarga
    /\ ReposoDescarga
    /\ ReposoCache

\* the cell as each cleaner leaves it in each key column; the alphabet has
\* neither "/" nor "Y", so _normalizar_distritos explodes the cell into one row
NormalizarTexto ==
    /\ pc = "crudo"
    /\ pc' = "normalizado"
    /\ textoNormalizado' =
           [columna \in ColumnasDeTexto |->
               [conexiones |-> normalizar_cadenas(textoCrudo),
                longitudes |-> normalizar_texto_longitudes(textoCrudo, columna = "distrito"),
                proyectos |-> IF columna = "distrito" THEN DistritosDe(textoCrudo)[1]
                              ELSE normalizar_texto_proyectos(textoCrudo)]]
    /\ UNCHANGED <<textoCrudo, varsUbigeo, varsPesos, varsAnotacion, varsEtl,
                 varsIndicadores, varsApi,
                 varsRecarga, varsDescarga, varsCache>>

NextTexto == NormalizarTexto

SpecTexto == InitTexto /\ [][NextTexto]_vars

\* C19: the connections, lengths and projects cleaners give the same
\* normalized value to the same raw text of gerencia_servicios,
\* equipo_comercial and distrito, whatever its letter case, its leading or
\* trailing blanks and its repeated inner blanks.
C19_MismoTextoNormalizado ==
    pc = "normalizado" =>
        \A columna \in ColumnasDeTexto :
            /\ textoNormalizado[columna].conexiones = textoNormalizado[columna].longitudes
            /\ textoNormalizado[columna].conexiones = textoNormalizado[columna].proyectos

-----------------------------------------------------------------------------
(* Properties of the keys with a missing component                          *)

\* every raw connections row whose key has a missing component has its group
\* in the aggregated connections
NulosEnConexiones ==
    \A i \in 1..Len(fuentes.conexiones.filas) :
        LET k == Clave(NormalizarFilaConexiones(fuentes.conexiones,
                                                fuentes.conexiones.filas[i]))
        IN  ClaveTieneNulo(k)
                => \E g \in 1..Len(etl.df_conexiones.filas) :
                       Clave(etl.df_conexiones.filas[g]) = k

\* every raw lengths row of a valid class whose key has a missing component
\* has its group in the aggregated lengths
NulosEnLongitudes ==
    \A i \in 1..Len(fuentes.longitudes.filas) :
        LET f == NormalizarFilaLongitudes(fuentes.longitudes.filas[i])
        IN  (ClaveTieneNulo(Clave(f)) /\ ~IsNA(f.clase))
                => \E g \in 1..Len(etl.df_longitudes.filas) :
                       Clave(etl.df_longitudes.filas[g]) = Clave(f)

\* every cleaned project row whose key has a missing component has its group
\* in the project aggregate
NulosEnProyectos ==
    \A i \in 1..Len(etl.df_proyectos.filas) :
        ClaveTieneNulo(Clave(etl.df_proyectos.filas[i]))
            => \E g \in 1..Len(agrupar_proyectos(etl.df_proyectos.filas)) :
                   Clave(agrupar_proyectos(etl.df_proyectos.filas)[g])
                       = Clave(etl.df_proyectos.filas[i])

\* an integrated row whose key has a missing component carries the values of
\* the project group of the same key
NulosEnCruces ==
    \A i \in 1..Len(etl.df_microzonas.filas) :
        \A g \in 1..Len(agrupar_proyectos(etl.df_proyectos.filas)) :
            LET fila == etl.df_microzonas.filas[i]
                grupo == agrupar_proyectos(etl.df_proyectos.filas)[g]
            IN  (ClaveTieneNulo(Clave(fila)) /\ Clave(grupo) = Clave(fila))
                    => /\ fila.conteo_proyectos_activos = grupo.conteo_proyectos_activos
                       /\ fila.avance_promedio_proyectos = grupo.avance_promedio_proyectos
                       /\ fila.faltan_datos_proyectos = grupo.faltan_datos_proyectos

\* C20: the rows whose microzone key has a missing component (ubigeo, year,
\* month, ...) are kept as a group of their own in the aggregated connections,
\* in the aggregated lengths and in the project aggregate, and such keys match
\* each other in the joins; no aggregation drops them.
C20_ClavesConNuloSeConservan ==
    Integrado =>
        /\ NulosEnConexiones
        /\ NulosEnLongitudes
        /\ NulosEnProyectos
        /\ NulosEnCruces

\* what holds of C20: all of it but the aggregated lengths
C20_SalvoLongitudes ==
    Integrado => (NulosEnConexiones /\ NulosEnProyectos /\ NulosEnCruces)

\* a connections key without ubigeo, year and month that met the project group
\* of the same key
C20_NulosCruzados ==
    /\ pc = "microzonas"
    /\ \E i \in 1..Len(etl.df_microzonas.filas) :
          /\ ClaveTieneNulo(Clave(etl.df_microzonas.filas[i]))
          /\ etl.df_microzonas.filas[i].faltan_datos_proyectos = QEntero(1)
    /\ \E i \in 1..Len(fuentes.longitudes.filas) :
          ClaveTieneNulo(Clave(NormalizarFilaLongitudes(fuentes.longitudes.filas[i])))

-----------------------------------------------------------------------------
(* Properties of the classification and of the warnings                     *)

\* the severity of a category, SIN_DATOS aside
Severidad(categoria) ==
    IF categoria = "CRITICA" THEN 2 ELSE IF categoria = "VIGILANCIA" THEN 1 ELSE 0

\* C21: every annotated row is classified from its rounded index with the
\* thresholds of the criteria, where alert <= critical: null is SIN_DATOS,
\* index >= critical is CRITICA, alert <= index < critical is VIGILANCIA,
\* index < alert is ESTABLE; a higher index never has a less severe category
\* than a lower one.
C21_ClasificacionPorUmbrales ==
    pc = "anotado" =>
        LET alerta == criterios.umbral_categoria_alerta
            critica == criterios.umbral_categoria_critica
        IN  /\ QMenorIgual(alerta, critica)
            /\ \A i \in 1..Len(enriquecido) :
                   LET indice == enriquecido[i].indice_critico
                       categoria == enriquecido[i].categoria_microzona
                   IN  /\ EsNulo(indice) <=> categoria = "SIN_DATOS"
                       /\ ~EsNulo(indice) =>
                              /\ categoria = "CRITICA" <=> QMenorIgual(critica, indice)
                              /\ categoria = "VIGILANCIA"
                                     <=> (QMenorIgual(alerta, indice) /\ QMenor(indice, critica))
                              /\ categoria = "ESTABLE" <=> QMenor(indice, alerta)
            /\ \A i, j \in 1..Len(enriquecido) :
                   (/\ ~EsNulo(enriquecido[i].indice_critico)
                    /\ ~EsNulo(enriquecido[j].indice_critico)
                    /\ QMenorIgual(enriquecido[i].indice_critico,
                                   enriquecido[j].indice_critico))
                       => Severidad(enriquecido[i].categoria_microzona)
                              <= Severidad(enriquecido[j].categoria_microzona)

\* witness of C21: thresholds given in the wrong order (0.6, 0.3), one row
\* in VIGILANCIA and one in CRITICA
C21_Witness ==
    /\ pc = "anotado"
    /\ QMenor(argumentos.umbral_categoria_critica, argumentos.umbral_categoria_alerta)
    /\ Len(enriquecido) = 2
    /\ enriquecido[1].categoria_microzona = "VIGILANCIA"
    /\ enriquecido[2].categoria_microzona = "CRITICA"

\* the five warnings, in their fixed order
TextosDeAdvertencia ==
    <<"Sin longitud de red de agua reportada.",
      "Sin longitud de red de desague reportada.",
      "Sin proyectos activos registrados para la microzona.",
      "Sin conexiones de agua registradas.",
      "El ratio de alcantarillado supera la unidad; revisar consistencia.">>

\* the condition of the n-th warning on the i-th row of the annotated table
CondicionDeAdvertencia(n, i) ==
    LET Valor(columna) == IF columna \in microzonas.columnas
                          THEN microzonas.filas[i][columna] ELSE <<>>
        Falta(columna) == Valor(columna) = <<>> \/ Valor(columna)[1] <= 0
        ratio == Valor("ratio_conexiones_alcantarillado")
    IN  CASE n = 1 -> Falta("longitud_total_agua")
          [] n = 2 -> Falta("longitud_total_desague")
          [] n = 3 -> Falta("conteo_proyectos_activos")
          [] n = 4 -> Falta("conexiones_agua")
          [] n = 5 -> ratio # <<>> /\ ratio[1] > ratio[2]

\* C22: advertencias_datos of every row holds exactly the warnings whose
\* condition holds, each at most once and in the fixed order (water length,
\* sewer length, active projects, water connections, ratio > 1); the five
\* conditions are independent, so the list has between 0 and 5 entries.
C22_AdvertenciasExactas ==
    pc = "anotado" =>
        \A i \in 1..Len(enriquecido) :
            LET lista == enriquecido[i].advertencias_datos
                Lugar(n) == {p \in 1..Len(lista) : lista[p] = TextosDeAdvertencia[n]}
            IN  /\ Len(lista) <= 5
                /\ \A p \in 1..Len(lista) : \E n \in 1..5 : lista[p] = TextosDeAdvertencia[n]
                /\ \A n \in 1..5 :
                       Cardinality(Lugar(n)) = IF CondicionDeAdvertencia(n, i) THEN 1 ELSE 0
                /\ \A n, m \in 1..5 :
                       n < m => \A p \in Lugar(n), q \in Lugar(m) : p < q

\* witness of C22: a row with the first four warnings and a row with the
\* second and the fifth
C22_Witness ==
    /\ pc = "anotado"
    /\ Len(enriquecido) = 2
    /\ enriquecido[1].advertencias_datos = SubSeq(TextosDeAdvertencia, 1, 4)
    /\ enriquecido[2].advertencias_datos
           = <<TextosDeAdvertencia[2], TextosDeAdvertencia[5]>>

-----------------------------------------------------------------------------
\* Properties of the constructed criteria

\* the criteria object exists: its constructor has returned
CriteriosConstruidos == pc \in {"criterios", "anotado", "FrozenInstanceError"}

UmbralesOrdenados(c) ==
    /\ QMenorIgual(QEntero(0), c.umbral_categoria_alerta)
    /\ QMenorIgual(c.umbral_categoria_alerta, c.umbral_categoria_critica)
    /\ QMenorIgual(c.umbral_categoria_critica, QEntero(1))

-----------------------------------------------------------------------------
\* Properties of the consistency flag

\* calcular_indicadores has returned a table
IndicadoresCalculados == pc = "resultado" /\ resultado.error = <<>>

\* the returned table as anotar_indicadores reads it
TablaDeResultado ==
    [columnas |-> {resultado.columnas[j] : j \in 1..Len(resultado.columnas)},
     filas |-> resultado.filas]

AdvertenciaDeRatio == "El ratio de alcantarillado supera la unidad; revisar consistencia."

AdvierteRatio(fila) ==
    \E k \in 1..Len(generar_advertencias(TablaDeResultado, fila)) :
        generar_advertencias(TablaDeResultado, fila)[k] = AdvertenciaDeRatio

AguaNulaOMenor(fila) ==
    \/ EsNulo(fila.conexiones_agua)
    \/ fila.conexiones_agua[1] < fila.conexiones_alcantarillado[1]

\* C24: in every row of a table returned by calcular_indicadores,
\* registros_inconsistentes is 1 exactly when conexiones_agua is null or
\* smaller than conexiones_alcantarillado, and it is 0 otherwise; every row
\* that gets the warning of a ratio above one has the flag raised.
C24_BanderaDeInconsistencia ==
    IndicadoresCalculados =>
        \A i \in 1..Len(resultado.filas) :
            /\ resultado.filas[i].registros_inconsistentes
                   = IF AguaNulaOMenor(resultado.filas[i]) THEN 1 ELSE 0
            /\ AdvierteRatio(resultado.filas[i])
                   => resultado.filas[i].registros_inconsistentes = 1

\* a row with more sewer than water connections gets the warning and the flag;
\* a row with no water connection and some of sewer gets the flag with a
\* ratio of 0 and no warning: the converse fails
C24_Witness ==
    /\ IndicadoresCalculados
    /\ Len(resultado.filas) = 2
    /\ AdvierteRatio(resultado.filas[1])
    /\ resultado.filas[1].registros_inconsistentes = 1
    /\ resultado.filas[2].conexiones_agua = <<0>>
    /\ resultado.filas[2].conexiones_alcantarillado[1] > 0
    /\ resultado.filas[2].registros_inconsistentes = 1
    /\ resultado.filas[2].ratio_conexiones_alcantarillado = QEntero(0)
    /\ ~AdvierteRatio(resultado.filas[2])

-----------------------------------------------------------------------------
\* Properties of the flag of missing lengths

SinFilaDeLongitudes(fila) ==
    \A j \in 1..Len(etl.df_longitudes.filas) :
        Clave(etl.df_longitudes.filas[j]) # Clave(fila)

\* C30: in the table that calcular_indicadores derives from the result of
\* enriquecer_microzonas, faltan_datos_longitud is 0 in every row, the rows
\* of the zones with no row in the lengths table included.
C30_NuncaFaltanLongitudes ==
    pc \in {"indicadores", "guardado"} =>
        \A i \in 1..Len(etl.df_indicadores.filas) :
            etl.df_indicadores.filas[i].faltan_datos_longitud = 0

\* a zone with no row in a lengths table that has total columns
C30_Witness ==
    /\ pc = "indicadores"
    /\ etl.df_longitudes.filas # <<>>
    /\ TieneColumna(etl.df_indicadores, "longitud_total_agua")
    /\ \E i \in 1..Len(etl.df_indicadores.filas) :
          /\ SinFilaDeLongitudes(etl.df_indicadores.filas[i])
          /\ etl.df_indicadores.filas[i].longitud_total_agua = QEntero(0)
          /\ etl.df_indicadores.filas[i].faltan_datos_longitud = 0

-----------------------------------------------------------------------------
\* Properties of the cache of the service

\* C28: no request changes what the cache holds: across every step of the
\* service, a list, a critical list, a summary or a detail request with any
\* filters and pagination, the cached annotated table and the cached
\* percentiles are what they were before the step, hence what the load made.
C28_CacheIntacto ==
    [][dataset' = dataset /\ percentiles' = percentiles]_vars

\* a critical list has been answered from a cached table that is not in the
\* order of the index: the handler sorted rows, and not those of the cache
C28_Witness ==
    /\ pc = "respondido"
    /\ respuesta.ruta = "/microzonas/criticas"
    /\ respuesta.total >= 1
    /\ OrdenarPorIndice(dataset) # dataset
    /\ percentiles.total_registros = Len(dataset)

-----------------------------------------------------------------------------
(* The export of the pipeline read back by the service                      *)

\* the ubigeo cell of a row as read_csv and cargar_microzonas make it. The
\* file is read with no dtype: a column of digits, quoted or not, is parsed
\* as int64, and as float64 once a cell of it is empty; then
\* fillna("").astype("string").str.strip() writes the number as text
LeerUbigeo(columna, celda) ==
    IF celda = <<>> THEN <<>>
    ELSE IF \E i \in 1..Len(columna) : columna[i] = <<>>
         THEN Strip(DigitosDe(EnteroDe(celda)) \o <<".", "0">>)
         ELSE Strip(DigitosDe(EnteroDe(celda)))

\* cargar_microzonas(ruta) on a file written by guardar_resultados; the cells
\* of the numeric columns are the numbers that were written
cargar_microzonas(f) ==
    LET Posicion_(c) == CHOOSE j \in 1..Len(f.columnas) : f.columnas[j] = c
        Columna_(c) == [i \in 1..Len(f.filas) |-> f.filas[i][Posicion_(c)]]
    IN  [columnas |-> {f.columnas[j] : j \in 1..Len(f.columnas)},
         filas |-> [i \in 1..Len(f.filas) |->
                       [c \in {f.columnas[j] : j \in 1..Len(f.columnas)} |->
                           LET celda == f.filas[i][Posicion_(c)]
                           IN  IF c = "ubigeo" THEN LeerUbigeo(Columna_(c), celda)
                               ELSE IF c = "gerencia_servicios" THEN Strip(celda)
                               ELSE celda]]]

\* Callao: a code that starts with a zero
U070101 == <<"0", "7", "0", "1", "0", "1">>

\* rows of the table handed to guardar_resultados
MaxFilasExportadas == 2

ColumnasExportadas ==
    <<"ubigeo", "gerencia_servicios", "conexiones_agua",
      "ratio_conexiones_alcantarillado", "longitud_total_agua",
      "longitud_total_desague", "conteo_proyectos_activos">>

TablasExportadas ==
    {[columnas |-> ColumnasExportadas, filas |-> filas] :
        filas \in Secuencias({FilaServicio(ubigeo, Upper(GS), agua, Q(6, 10),
                                           <<5>>, <<0>>, <<1>>) :
                                 ubigeo \in {U150101, U070101, NA},
                                 agua \in {<<1000>>, <<300>>}},
                             MaxFilasExportadas)}

SinBusqueda == [ubigeo |-> <<>>, estado |-> 0, microzonas |-> <<>>, detalle |-> SinDetalle]

InitRecarga ==
    /\ pc = "tabla"
    /\ exportada \in TablasExportadas
    /\ csv = Ausente
    /\ recargada = <<>>
    /\ busqueda = SinBusqueda
    /\ ReposoUbigeo
    /\ ReposoPesos
    /\ ReposoAnotacion
    /\ ReposoEtl
    /\ ReposoIndicadores
    /\ ReposoTexto
    /\ ReposoApi
    /\ ReposoDescarga
    /\ ReposoCache

\* the pipeline writes its table
ExportarTabla ==
    /\ pc = "tabla"
    /\ pc' = "archivo"
    /\ csv' = guardar_resultados(exportada)
    /\ UNCHANGED <<exportada, recargada, busqueda>>
    /\ UNCHANGED <<varsUbigeo, varsPesos, varsAnotacion, varsEtl, varsIndicadores,
                 varsTexto, varsApi, varsDescarga, varsCache>>

\* the service loads the file on its first request
CargarExportada ==
    /\ pc = "archivo"
    /\ pc' = "cargada"
    /\ recargada' = cargar_dataset_enriquecido(cargar_microzonas(csv)).microzonas_enriquecidas
    /\ UNCHANGED <<exportada, csv, busqueda>>
    /\ UNCHANGED <<varsUbigeo, varsPesos, varsAnotacion, varsEtl, varsIndicadores,
                 varsTexto, varsApi, varsDescarga, varsCache>>

\* GET /microzonas/{ubigeo} for a ubigeo of the exported table
BuscarExportada ==
    /\ pc = "cargada"
    /\ pc' = "consultada"
    /\ \E i \in 1..Len(exportada.filas) :
          /\ FullMatchSeisDigitos(exportada.filas[i].ubigeo)
          /\ busqueda' = [ubigeo |-> exportada.filas[i].ubigeo]
                         @@ obtener_microzona(recargada, exportada.filas[i].ubigeo)
    /\ UNCHANGED <<exportada, csv, recargada>>
    /\ UNCHANGED <<varsUbigeo, varsPesos, varsAnotacion, varsEtl, varsIndicadores,
                 varsTexto, varsApi, varsDescarga, varsCache>>

NextRecarga == ExportarTabla \/ CargarExportada \/ BuscarExportada

SpecRecarga == InitRecarga /\ [][NextRecarga]_vars

Recargado == pc \in {"cargada", "consultada"}

\* C29: every row written with a ubigeo of six digits is read back with the
\* same six characters, with leading zeros and with rows of missing ubigeo in
\* the table too, and a detail lookup by that ubigeo finds the row.
C29_UbigeoSobreviveLaRecarga ==
    /\ Recargado =>
          \A i \in 1..Len(exportada.filas) :
              FullMatchSeisDigitos(exportada.filas[i].ubigeo) =>
                  recargada[i].fila.ubigeo = exportada.filas[i].ubigeo
    /\ pc = "consultada" =>
          /\ busqueda.estado = 200
          /\ busqueda.microzonas[1].datos_base.ubigeo = busqueda.ubigeo

\* what the code does keep: a table whose rows all have a ubigeo that does
\* not start with a zero
C29_SinCerosNiFaltantes ==
    (/\ Recargado
     /\ \A i \in 1..Len(exportada.filas) :
            /\ FullMatchSeisDigitos(exportada.filas[i].ubigeo)
            /\ exportada.filas[i].ubigeo[1] # "0")
    => /\ \A i \in 1..Len(exportada.filas) :
              recargada[i].fila.ubigeo = exportada.filas[i].ubigeo
       /\ pc = "consultada" => busqueda.estado = 200

-----------------------------------------------------------------------------
(* src/etl_sedapal.py: descargar_dataset                                    *)

\* status_forcelist of the Retry strategy mounted on the session
STATUS_FORCELIST == {429, 500, 502, 503, 504}

\* what one HTTP request may meet: a status, or 0 for no response at all
\* (connection refused, timeout)
ResultadosDePeticion == {0, 200, 404, 503}

\* the greatest reintentos given to descargar_dataset
MaxReintentos == 3

ParametrosDeDescarga ==
    [reintentos : 0..MaxReintentos, espera_segundos : {0, 3}]

\* the requests.RequestException a call of sesion.get and raise_for_status
\* ends with, once urllib3 retries no more: ConnectionError with no response,
\* RetryError after a status of the forcelist, HTTPError of raise_for_status
\* for any other status of error
ExcepcionDe(resultado_http) ==
    IF resultado_http = 0 THEN "ConnectionError"
    ELSE IF resultado_http \in STATUS_FORCELIST THEN "RetryError"
    ELSE "HTTPError"

\* mutant: the same wait before every attempt
Mut_TiempoEsperaFijo(espera_segundos, n) == espera_segundos

\* tiempo_espera = espera_segundos * intento
TiempoEspera(espera_segundos, n) == espera_segundos * n

EnDescarga ==
    [estado |-> "en curso", valor |-> "", error |-> "", status |-> 0,
     peticiones |-> 0, internos |-> 0, fallos |-> <<>>]

InitDescarga ==
    /\ pc = "bucle"
    /\ parametros \in ParametrosDeDescarga
    /\ intento = 0
    /\ dormido = <<>>
    /\ descarga = EnDescarga
    /\ ReposoUbigeo
    /\ ReposoPesos
    /\ ReposoAnotacion
    /\ ReposoEtl
    /\ ReposoIndicadores
    /\ ReposoTexto
    /\ ReposoApi
    /\ ReposoRecarga
    /\ ReposoCache

\* while True: intento += 1, and sesion.get is called with the Retry
\* strategy as configured
Intentar ==
    /\ pc = "bucle"
    /\ pc' = "get"
    /\ intento' = intento + 1
    /\ descarga' = [descarga EXCEPT !.internos = 0]
    /\ UNCHANGED <<parametros, dormido>>
    /\ UNCHANGED <<varsUbigeo, varsPesos, varsAnotacion, varsEtl, varsIndicadores,
                 varsTexto, varsApi, varsRecarga, varsCache>>

\* the request is answered with 200: the content is written and the path
\* returned
DescargaExitosa ==
    /\ pc = "get"
    /\ pc' = "fin"
    /\ descarga' = [descarga EXCEPT !.estado = "retorno", !.valor = "ruta_destino",
                                    !.status = 200, !.peticiones = @ + 1]
    /\ UNCHANGED <<parametros, intento, dormido>>
    /\ UNCHANGED <<varsUbigeo, varsPesos, varsAnotacion, varsEtl, varsIndicadores,
                 varsTexto, varsApi, varsRecarga, varsCache>>

\* inside sesion.get: urllib3 sends the request again, after its own backoff,
\* when there was no response or a status of the forcelist, while the total
\* of the strategy (reintentos) is not spent
ReintentoDeUrllib3 ==
    /\ pc = "get"
    /\ descarga.internos < parametros.reintentos
    /\ \E resultado_http \in ResultadosDePeticion :
          /\ resultado_http = 0 \/ resultado_http \in STATUS_FORCELIST
          /\ descarga' = [descarga EXCEPT !.status = resultado_http,
                                          !.peticiones = @ + 1, !.internos = @ + 1]
    /\ UNCHANGED <<pc, parametros, intento, dormido>>
    /\ UNCHANGED <<varsUbigeo, varsPesos, varsAnotacion, varsEtl, varsIndicadores,
                 varsTexto, varsApi, varsRecarga, varsCache>>

\* the attempt ends with a requests.RequestException: raised again when
\* intento >= reintentos, else the loop goes to its wait
FalloDelIntento ==
    /\ pc = "get"
    /\ \E resultado_http \in ResultadosDePeticion \ {200} :
          /\ (resultado_http = 0 \/ resultado_http \in STATUS_FORCELIST)
                 => descarga.internos >= parametros.reintentos
          /\ IF intento >= parametros.reintentos
             THEN /\ pc' = "fin"
                  /\ descarga' = [descarga EXCEPT
                         !.estado = "excepcion", !.error = ExcepcionDe(resultado_http),
                         !.status = resultado_http, !.peticiones = @ + 1,
                         !.fallos = Append(@, ExcepcionDe(resultado_http))]
             ELSE /\ pc' = "dormir"
                  /\ descarga' = [descarga EXCEPT
                         !.status = resultado_http, !.peticiones = @ + 1,
                         !.fallos = Append(@, ExcepcionDe(resultado_http))]
    /\ UNCHANGED <<parametros, intento, dormido>>
    /\ UNCHANGED <<varsUbigeo, varsPesos, varsAnotacion, varsEtl, varsIndicadores,
                 varsTexto, varsApi, varsRecarga, varsCache>>

\* time.sleep(tiempo_espera), then the next turn of the loop
Dormir ==
    /\ pc = "dormir"
    /\ pc' = "bucle"
    /\ dormido' = Append(dormido, TiempoEspera(parametros.espera_segundos, intento))
    /\ UNCHANGED <<parametros, intento, descarga>>
    /\ UNCHANGED <<varsUbigeo, varsPesos, varsAnotacion, varsEtl, varsIndicadores,
                 varsTexto, varsApi, varsRecarga, varsCache>>

NextDescarga ==
    \/ Intentar
    \/ DescargaExitosa
    \/ ReintentoDeUrllib3
    \/ FalloDelIntento
    \/ Dormir

SpecDescarga == InitDescarga /\ [][NextDescarga]_vars

\* the call runs in its thread until it returns or raises
SpecDescargaJusta == SpecDescarga /\ WF_vars(NextDescarga)

-----------------------------------------------------------------------------
\* Properties of the download

\* the attempts the loop may make: reintentos, and one when reintentos is 0
TopeDeIntentos == IF parametros.reintentos > 1 THEN parametros.reintentos ELSE 1

\* C25: the loop of descargar_dataset makes at most reintentos attempts (one
\* when reintentos is 0); before the attempt k + 1 it has slept
\* espera_segundos * k, once per failed attempt; it ends; when it ends with
\* an exception, the attempts are spent and the exception is the one of the
\* last attempt; when it ends with the path, that attempt was answered with
\* 200 and every attempt before it had failed.
C25_ReintentosAcotadosYLineales ==
    /\ [](/\ intento <= TopeDeIntentos
          /\ Len(dormido) = (IF pc = "bucle" THEN intento ELSE intento - 1)
          /\ \A k \in 1..Len(dormido) : dormido[k] = parametros.espera_segundos * k
          /\ descarga.estado = "excepcion" =>
                 /\ intento = TopeDeIntentos
                 /\ Len(descarga.fallos) = intento
                 /\ descarga.error = descarga.fallos[intento]
                 /\ descarga.error = ExcepcionDe(descarga.status)
          /\ descarga.estado = "retorno" =>
                 /\ descarga.valor = "ruta_destino"
                 /\ descarga.status = 200
                 /\ Len(descarga.fallos) = intento - 1)
    /\ <>(pc = "fin")

\* the third attempt of three fails too: two waits, of 3 and 6 seconds, and
\* the exception of that attempt reaches the caller
C25_Witness ==
    /\ pc = "fin"
    /\ parametros = [reintentos |-> 3, espera_segundos |-> 3]
    /\ descarga.estado = "excepcion"
    /\ intento = 3
    /\ dormido = <<3, 6>>
    /\ descarga.fallos = <<"HTTPError", "ConnectionError", "RetryError">>
    /\ descarga.error = "RetryError"

\* C26: a response with a status of error outside the forcelist ends the
\* call at once: the exception reaches the caller with no further attempt and
\* no wait, and only a status of the forcelist leads to another attempt.
C26_SoloElForcelistReintenta ==
    [][/\ (/\ descarga'.peticiones = descarga.peticiones + 1
           /\ descarga'.status # 200
           /\ descarga'.status \notin STATUS_FORCELIST
           /\ descarga'.status # 0)
          => (pc' = "fin" /\ descarga'.estado = "excepcion")
       /\ (pc = "dormir" /\ pc' = "bucle") => descarga.status \in STATUS_FORCELIST]_vars

-----------------------------------------------------------------------------
(* app/dependencies.py: the lru_cache of _cargar_dataset_enriquecido, called *)
(* by the threads that serve the requests                                   *)

\* threads of the pool that run the handlers
NumHilos == 3

Hilos == 1..NumHilos

CacheVacio == [lleno |-> FALSE, valor |-> 0]

InitCache ==
    /\ pc = "proceso"
    /\ cache = CacheVacio
    /\ hilos = [h \in Hilos |-> [pc |-> "ocioso", visto |-> 0]]
    /\ cargas = 0
    /\ ReposoUbigeo
    /\ ReposoPesos
    /\ ReposoAnotacion
    /\ ReposoEtl
    /\ ReposoIndicadores
    /\ ReposoTexto
    /\ ReposoApi
    /\ ReposoRecarga
    /\ ReposoDescarga

\* a handler calls _cargar_dataset_enriquecido(): the wrapper of lru_cache
\* looks the key up; a hit returns the cached tuple, a miss goes on to call
\* the function, and no lock is held meanwhile
ConsultarCache(h) ==
    /\ hilos[h].pc = "ocioso"
    /\ hilos' = [hilos EXCEPT ![h] =
                    IF cache.lleno THEN [pc |-> "servido", visto |-> cache.valor]
                    ELSE [pc |-> "cargando", visto |-> 0]]
    /\ UNCHANGED <<pc, cache, cargas>>
    /\ UNCHANGED <<varsUbigeo, varsPesos, varsAnotacion, varsEtl, varsIndicadores,
                 varsTexto, varsApi, varsRecarga, varsDescarga>>

\* the body runs: the file is read, the percentiles computed, the rows
\* annotated; the load is numbered by its order among those made since the
\* last clear. The wrapper stores the result unless the key was stored while
\* the body ran, and returns to its caller the result of its own call
CargarDatasetEnriquecido(h) ==
    /\ hilos[h].pc = "cargando"
    /\ cargas' = cargas + 1
    /\ cache' = IF cache.lleno THEN cache ELSE [lleno |-> TRUE, valor |-> cargas + 1]
    /\ hilos' = [hilos EXCEPT ![h] = [pc |-> "servido", visto |-> cargas + 1]]
    /\ UNCHANGED pc
    /\ UNCHANGED <<varsUbigeo, varsPesos, varsAnotacion, varsEtl, varsIndicadores,
                 varsTexto, varsApi, varsRecarga, varsDescarga>>

\* the handler answers from its copy and the thread is free again
TerminarPeticion(h) ==
    /\ hilos[h].pc = "servido"
    /\ hilos' = [hilos EXCEPT ![h] = [pc |-> "ocioso", visto |-> 0]]
    /\ UNCHANGED <<pc, cache, cargas>>
    /\ UNCHANGED <<varsUbigeo, varsPesos, varsAnotacion, varsEtl, varsIndicadores,
                 varsTexto, varsApi, varsRecarga, varsDescarga>>

\* limpiar_caches(), called while no request is being served
LimpiarCaches ==
    /\ \A h \in Hilos : hilos[h].pc = "ocioso"
    /\ cache.lleno
    /\ cache' = CacheVacio
    /\ cargas' = 0
    /\ UNCHANGED <<pc, hilos>>
    /\ UNCHANGED <<varsUbigeo, varsPesos, varsAnotacion, varsEtl, varsIndicadores,
                 varsTexto, varsApi, varsRecarga, varsDescarga>>

NextCache ==
    \/ \E h \in Hilos : ConsultarCache(h)
    \/ \E h \in Hilos : CargarDatasetEnriquecido(h)
    \/ \E h \in Hilos : TerminarPeticion(h)
    \/ LimpiarCaches

SpecCache == InitCache /\ [][NextCache]_vars

\* C27: between two clears of the cache the body of
\* _cargar_dataset_enriquecido runs at most once, whatever the number and the
\* interleaving of the requests, first requests served at the same time by
\* different threads included, and every request served sees the result of
\* that one load.
C27_UnaSolaCarga ==
    /\ cargas <= 1
    /\ \A h \in Hilos : hilos[h].pc = "servido" => hilos[h].visto = 1

\* what the cache does keep: once a result is stored, it is the one every
\* later call gets until the next clear
C27_ElCacheNoCambiaDeValor ==
    [][cache.lleno /\ cache'.lleno => cache'.valor = cache.valor]_vars

====
